---- MODULE Spec2Model ----
(***************************************************************************)
(* Backup-request construction of the Cloud Spanner database admin client: *)
(* validation of a database resource path against validDBPattern, the      *)
(* derivation of the parent instance path, the conversion of the expiry    *)
(* time to a protobuf timestamp, and the hand-over of the constructed      *)
(* CreateBackupRequest to the wrapped generated client.                    *)
(*                                                                         *)
(* A Go string is a sequence of one-character strings; the empty string is *)
(* the empty sequence.                                                     *)
(***************************************************************************)
EXTENDS Integers, Sequences, FiniteSets, TLC

VARIABLES
    databasePath,   \* the database argument of the call under way
    backupID,       \* the backupID argument
    unixSec,        \* the arguments of time.Unix(sec, nsec) that built ...
    unixNsec,
    expireTime,     \* ... the expireTime argument, a time.Time
    svc,            \* what the service answers to a CreateBackup request
    pc,             \* "ready" before the call, "done" after it
    op,             \* the function or method that was called
    ret,            \* what it returned
    reqs,           \* the requests handed to the wrapped client, in order
    ctx,            \* the context argument
    opts,           \* the call options argument
    request,        \* the request (or the operation name) given to a pass-through method
    waitRet,        \* what Wait on the returned operation returned
    pkgPattern,     \* the package-level variable validDBPattern
    callers,        \* the calls under way, one record for each concurrent caller
    finished,       \* the calls that returned
    nCalls          \* how many calls the one client made before the call under way

vars == <<databasePath, backupID, unixSec, unixNsec, expireTime, svc, pc, op, ret, reqs,
          ctx, opts, request, waitRet, pkgPattern, callers, finished, nCalls>>

----------------------------------------------------------------------------
(* Bounds of the model. *)

\* The longest list of '/'-separated segments a generated path is joined from.
MaxSegs == 7
\* Seconds arguments of time.Unix run over -MaxSec..MaxSec beside the tests' values.
MaxSec == 2

----------------------------------------------------------------------------
(* Strings. *)

EmptyString == << >>

Slash == "/"

RECURSIVE ConcatRange(_, _, _)
\* The concatenation of parts[lo..hi].
ConcatRange(parts, lo, hi) ==
    IF lo > hi THEN EmptyString
    ELSE IF lo = hi THEN parts[lo]
    ELSE LET mid == (lo + hi) \div 2
         IN  ConcatRange(parts, lo, mid) \o ConcatRange(parts, mid + 1, hi)

\* The concatenation of a sequence of strings.
Concat(parts) == ConcatRange(parts, 1, Len(parts))

\* Whether sub occurs in s at position i (1-based).
HasPrefixAt(s, i, sub) ==
    /\ i + Len(sub) - 1 <= Len(s)
    /\ \A k \in 1..Len(sub) : s[i + k - 1] = sub[k]

\* The first position from i on where s holds a character of the set stop, or
\* Len(s) + 1 when it holds none.
IndexFrom(s, i, stop) ==
    LET hits == {j \in i..Len(s) : s[j] \in stop}
    IN  IF hits = {} THEN Len(s) + 1
        ELSE CHOOSE j \in hits : \A h \in hits : j <= h

\* strings.Split(s, "/"): the segments between the slashes, one more than there
\* are slashes, so the empty string gives one empty segment.
Split(s) ==
    LET cuts   == {j \in 1..Len(s) : s[j] = Slash}
        n      == Cardinality(cuts)
        cut(k) == IF k = 0 THEN 0
                  ELSE IF k > n THEN Len(s) + 1
                  ELSE CHOOSE j \in cuts : Cardinality({h \in cuts : h <= j}) = k
    IN  [k \in 1..(n + 1) |-> SubSeq(s, cut(k - 1) + 1, cut(k) - 1)]

RECURSIVE Join(_)
\* strings.Join(segs, "/").
Join(segs) ==
    IF segs = << >> THEN EmptyString
    ELSE IF Len(segs) = 1 THEN segs[1]
    ELSE segs[1] \o <<Slash>> \o Join(Tail(segs))

\* One character as the %q verb writes it.
QuoteChar(c) ==
    CASE c = "\"" -> <<"\\", "\"">>
      [] c = "\\" -> <<"\\", "\\">>
      [] c = "\n" -> <<"\\", "n">>
      [] OTHER    -> <<c>>

\* The %q verb of fmt: the string in double quotes, with the quote, the
\* backslash and the newline escaped.
Quote(s) == <<"\"">> \o Concat([i \in 1..Len(s) |-> QuoteChar(s[i])]) \o <<"\"">>

----------------------------------------------------------------------------
(* Regular expressions: the subset of RE2 syntax validDBPattern is written *)
(* in. A compiled expression is a sequence of instructions: the anchors,   *)
(* a run of literal characters, the opening and the closing of a named     *)
(* group, and a greedy repetition of the class [^/].                       *)

\* The characters that end a run of literal characters.
MetaChars == {"^", "$", "(", ")", "["}

RECURSIVE CompileFrom(_, _)
CompileFrom(text, i) ==
    IF i > Len(text) THEN << >>
    ELSE IF text[i] = "^" THEN <<[op |-> "bol"]>> \o CompileFrom(text, i + 1)
    ELSE IF text[i] = "$" THEN <<[op |-> "eol"]>> \o CompileFrom(text, i + 1)
    ELSE IF HasPrefixAt(text, i, <<"(", "?", "P", "<">>)
        THEN LET e == IndexFrom(text, i + 4, {">"})
             IN  <<[op |-> "open", name |-> SubSeq(text, i + 4, e - 1)]>>
                    \o CompileFrom(text, e + 1)
    ELSE IF text[i] = ")" THEN <<[op |-> "close"]>> \o CompileFrom(text, i + 1)
    ELSE IF HasPrefixAt(text, i, <<"[", "^", "/", "]", "+">>)
        THEN <<[op |-> "repeat", min |-> 1]>> \o CompileFrom(text, i + 5)
    ELSE IF HasPrefixAt(text, i, <<"[", "^", "/", "]", "*">>)
        THEN <<[op |-> "repeat", min |-> 0]>> \o CompileFrom(text, i + 5)
    ELSE LET e == IndexFrom(text, i + 1, MetaChars)
         IN  <<[op |-> "lit", s |-> SubSeq(text, i, e - 1)]>> \o CompileFrom(text, e)

\* regexp.MustCompile(text).
MustCompile(text) == [text |-> text, prog |-> CompileFrom(text, 1)]

NoMatch == [ok |-> FALSE, start |-> 0, end |-> 0, caps |-> << >>]

\* The length of the longest run of non-slash characters of s from position i.
RunLen(s, i) == IndexFrom(s, i, {Slash}) - i

RECURSIVE Run(_, _, _, _, _)
RECURSIVE RunRepeat(_, _, _, _, _, _, _)
\* A greedy repetition of [^/] at instruction k: the longest run first, then
\* shorter ones down to min characters, the first that lets the rest match.
RunRepeat(prog, k, s, i, n, min, caps) ==
    IF n < min THEN NoMatch
    ELSE LET r == Run(prog, k + 1, s, i + n, caps)
         IN  IF r.ok THEN r ELSE RunRepeat(prog, k, s, i, n - 1, min, caps)

\* The match of the instructions from k on against s from position i on, caps
\* being the groups captured so far; NoMatch when there is none.
Run(prog, k, s, i, caps) ==
    IF k > Len(prog) THEN [ok |-> TRUE, start |-> 0, end |-> i, caps |-> caps]
    ELSE LET ins == prog[k] IN
        CASE ins.op = "bol" ->
                IF i = 1 THEN Run(prog, k + 1, s, i, caps) ELSE NoMatch
          [] ins.op = "eol" ->
                IF i = Len(s) + 1 THEN Run(prog, k + 1, s, i, caps) ELSE NoMatch
          [] ins.op = "lit" ->
                IF HasPrefixAt(s, i, ins.s)
                    THEN Run(prog, k + 1, s, i + Len(ins.s), caps) ELSE NoMatch
          [] ins.op = "open" ->
                Run(prog, k + 1, s, i,
                    Append(caps, [name |-> ins.name, lo |-> i, hi |-> i - 1]))
          [] ins.op = "close" ->
                Run(prog, k + 1, s, i,
                    [caps EXCEPT ![Len(caps)].hi = i - 1])
          [] ins.op = "repeat" ->
                RunRepeat(prog, k, s, i, RunLen(s, i), ins.min, caps)

\* The leftmost match of re in s that starts at position i or later.
FindFrom(re, s, i) ==
    LET starts == {j \in i..(Len(s) + 1) : Run(re.prog, 1, s, j, << >>).ok}
    IN  IF starts = {} THEN NoMatch
        ELSE LET j == CHOOSE x \in starts : \A y \in starts : x <= y
             IN  [Run(re.prog, 1, s, j, << >>) EXCEPT !.start = j]

\* (*Regexp).MatchString: whether s contains a match of re.
MatchString(re, s) == FindFrom(re, s, 1).ok

\* (*Regexp).String: the source text the expression was compiled from.
String(re) == re.text

\* The text the group called name captured in the match m of s; empty when no
\* group has the name.
Submatch(s, m, name) ==
    LET hit == {j \in 1..Len(m.caps) : m.caps[j].name = name}
    IN  IF hit = {} THEN EmptyString
        ELSE LET j == CHOOSE x \in hit : TRUE
             IN  SubSeq(s, m.caps[j].lo, m.caps[j].hi)

RECURSIVE Expand(_, _, _, _)
\* (*Regexp).Expand of a template of literal text and ${name} references.
Expand(repl, i, s, m) ==
    IF i > Len(repl) THEN EmptyString
    ELSE IF HasPrefixAt(repl, i, <<"$", "{">>)
        THEN LET e == IndexFrom(repl, i + 2, {"}"})
             IN  Submatch(s, m, SubSeq(repl, i + 2, e - 1)) \o Expand(repl, e + 1, s, m)
    ELSE <<repl[i]>> \o Expand(repl, i + 1, s, m)

RECURSIVE ReplaceFrom(_, _, _, _)
ReplaceFrom(re, src, repl, i) ==
    LET m == FindFrom(re, src, i) IN
    IF ~m.ok THEN SubSeq(src, i, Len(src))
    ELSE SubSeq(src, i, m.start - 1) \o Expand(repl, 1, src, m)
            \o (IF m.end > m.start THEN ReplaceFrom(re, src, repl, m.end)
                ELSE IF m.end > Len(src) THEN EmptyString
                ELSE <<src[m.end]>> \o ReplaceFrom(re, src, repl, m.end + 1))

\* (*Regexp).ReplaceAllString: src with every match of re replaced by the
\* expansion of repl, the text between the matches kept.
ReplaceAllString(re, src, repl) == ReplaceFrom(re, src, repl, 1)

----------------------------------------------------------------------------
(* Errors and the fmt verbs the code uses. *)

\* The nil error.
NilError == [kind |-> "nil", code |-> "OK", msg |-> EmptyString]

\* The error with a message that names the database and leaves the pattern out.
ErrorfWithoutPattern(db, pattern) ==
    [kind |-> "errorString",
     code |-> "none",
     msg  |-> Concat(<< <<"i","n","v","a","l","i","d"," ","d","a","t","a","b","a","s","e"," ","n","a","m","e"," ">>,
                        Quote(db) >>)]

\* fmt.Errorf("database name %q should conform to pattern %q", db, pattern):
\* an error value that is no gRPC status and carries no status code.
Errorf(db, pattern) ==
    [kind |-> "errorString",
     code |-> "none",
     msg  |-> Concat(<< <<"d","a","t","a","b","a","s","e"," ","n","a","m","e"," ">>,
                        Quote(db),
                        <<" ","s","h","o","u","l","d"," ","c","o","n","f","o","r","m"," ","t","o"," ","p","a","t","t","e","r","n"," ">>,
                        Quote(pattern) >>)]

----------------------------------------------------------------------------
(* Validation of the database path. *)

\* The pattern without its closing anchor: what follows a match is not looked at.
validDBPatternUnanchored ==
    MustCompile(<<"^","p","r","o","j","e","c","t","s","/","(","?","P","<","p","r","o","j","e","c","t",">","[","^","/","]","+",")","/","i","n","s","t","a","n","c","e","s","/","(","?","P","<","i","n","s","t","a","n","c","e",">","[","^","/","]","+",")","/","d","a","t","a","b","a","s","e","s","/","(","?","P","<","d","a","t","a","b","a","s","e",">","[","^","/","]","+",")">>)

\* The pattern with a project that may be empty.
validDBPatternStar ==
    MustCompile(<<"^","p","r","o","j","e","c","t","s","/","(","?","P","<","p","r","o","j","e","c","t",">","[","^","/","]","*",")","/","i","n","s","t","a","n","c","e","s","/","(","?","P","<","i","n","s","t","a","n","c","e",">","[","^","/","]","+",")","/","d","a","t","a","b","a","s","e","s","/","(","?","P","<","d","a","t","a","b","a","s","e",">","[","^","/","]","+",")","$">>)

\* The pattern with every group closed after the slash that follows the name.
validDBPatternSlashInGroup ==
    MustCompile(<<"^","p","r","o","j","e","c","t","s","/","(","?","P","<","p","r","o","j","e","c","t",">","[","^","/","]","+","/",")","i","n","s","t","a","n","c","e","s","/","(","?","P","<","i","n","s","t","a","n","c","e",">","[","^","/","]","+","/",")","d","a","t","a","b","a","s","e","s","/","(","?","P","<","d","a","t","a","b","a","s","e",">","[","^","/","]","+",")","$">>)

\* The pattern with named groups.
validDBPattern ==
    MustCompile(<<"^","p","r","o","j","e","c","t","s","/","(","?","P","<","p","r","o","j","e","c","t",">","[","^","/","]","+",")","/","i","n","s","t","a","n","c","e","s","/","(","?","P","<","i","n","s","t","a","n","c","e",">","[","^","/","]","+",")","/","d","a","t","a","b","a","s","e","s","/","(","?","P","<","d","a","t","a","b","a","s","e",">","[","^","/","]","+",")","$">>)

\* The pattern that stops after the project: whatever follows is accepted,
\* and nothing need follow.
validDBPatternProjectOnly ==
    MustCompile(<<"^","p","r","o","j","e","c","t","s","/","[","^","/","]","+">>)

\* The pattern without groups, of the variant that returns the error alone.
validDBPatternPlain ==
    MustCompile(<<"^","p","r","o","j","e","c","t","s","/","[","^","/","]","+","/","i","n","s","t","a","n","c","e","s","/","[","^","/","]","+","/","d","a","t","a","b","a","s","e","s","/","[","^","/","]","+","$">>)

\* The pattern of StartBackupOperation with a database that may be empty.
localDBPatternEmptyDatabase ==
    MustCompile(<<"^","p","r","o","j","e","c","t","s","/","(","?","P","<","p","r","o","j","e","c","t",">","[","^","/","]","+",")","/","i","n","s","t","a","n","c","e","s","/","(","?","P","<","i","n","s","t","a","n","c","e",">","[","^","/","]","+",")","/","d","a","t","a","b","a","s","e","s","/","(","?","P","<","d","a","t","a","b","a","s","e",">","[","^","/","]","*",")","$">>)

\* The pattern StartBackupOperation compiles for itself on every call, under
\* a local name that hides the package's validDBPattern.
localDBPattern ==
    MustCompile(<<"^","p","r","o","j","e","c","t","s","/","(","?","P","<","p","r","o","j","e","c","t",">","[","^","/","]","+",")","/","i","n","s","t","a","n","c","e","s","/","(","?","P","<","i","n","s","t","a","n","c","e",">","[","^","/","]","+",")","/","d","a","t","a","b","a","s","e","s","/","(","?","P","<","d","a","t","a","b","a","s","e",">","[","^","/","]","+",")","$">>)

\* validDatabaseName extracting before it looks at the match: the three
\* replacements are returned beside the error, and ReplaceAllString gives a
\* string without a match back as it is.
validDatabaseNameExtractsFirst(db) ==
    LET project  == ReplaceAllString(validDBPattern, db, <<"$","{","p","r","o","j","e","c","t","}">>)
        instance == ReplaceAllString(validDBPattern, db, <<"$","{","i","n","s","t","a","n","c","e","}">>)
        database == ReplaceAllString(validDBPattern, db, <<"$","{","d","a","t","a","b","a","s","e","}">>)
    IN  [project  |-> project,
         instance |-> instance,
         database |-> database,
         err      |-> IF ~MatchString(validDBPattern, db)
                      THEN Errorf(db, String(validDBPattern))
                      ELSE NilError]

\* validDatabaseName with the templates of the instance and of the database
\* exchanged.
validDatabaseNameSwapped(db) ==
    IF ~MatchString(validDBPattern, db)
    THEN [project  |-> EmptyString,
          instance |-> EmptyString,
          database |-> EmptyString,
          err      |-> Errorf(db, String(validDBPattern))]
    ELSE [project  |-> ReplaceAllString(validDBPattern, db, <<"$","{","p","r","o","j","e","c","t","}">>),
          instance |-> ReplaceAllString(validDBPattern, db, <<"$","{","d","a","t","a","b","a","s","e","}">>),
          database |-> ReplaceAllString(validDBPattern, db, <<"$","{","i","n","s","t","a","n","c","e","}">>),
          err      |-> NilError]

\* validDatabaseName, the variant that extracts the three names.
validDatabaseName(db) ==
    IF ~MatchString(validDBPattern, db)
    THEN [project  |-> EmptyString,
          instance |-> EmptyString,
          database |-> EmptyString,
          err      |-> Errorf(db, String(validDBPattern))]
    ELSE [project  |-> ReplaceAllString(validDBPattern, db, <<"$","{","p","r","o","j","e","c","t","}">>),
          instance |-> ReplaceAllString(validDBPattern, db, <<"$","{","i","n","s","t","a","n","c","e","}">>),
          database |-> ReplaceAllString(validDBPattern, db, <<"$","{","d","a","t","a","b","a","s","e","}">>),
          err      |-> NilError]

\* validDatabaseName, the variant that returns the error alone.
validDatabaseNamePlain(db) ==
    IF ~MatchString(validDBPatternPlain, db)
    THEN Errorf(db, String(validDBPatternPlain))
    ELSE NilError

----------------------------------------------------------------------------
(* The parent instance path. *)

\* getInstanceNameFromDatabasePath with the instance label written twice, the
\* instance name never read.
getInstanceNameRepeatsLabel(path) ==
    LET pathParts == Split(path) IN
    IF Len(pathParts) < 4
    THEN [panic |-> TRUE, val |-> EmptyString]
    ELSE [panic |-> FALSE,
          val   |-> Concat(<<pathParts[1], <<Slash>>, pathParts[2], <<Slash>>,
                             pathParts[3], <<Slash>>, pathParts[3]>>)]

\* getInstanceNameFromDatabasePath joining every segment, not the first four.
getInstanceNameJoinsAll(path) ==
    LET pathParts == Split(path) IN
    IF Len(pathParts) < 4
    THEN [panic |-> TRUE, val |-> EmptyString]
    ELSE [panic |-> FALSE, val |-> Join(pathParts)]

\* getInstanceNameFromDatabasePath validating the path itself, with an empty
\* result for a path that does not match.
getInstanceNameRevalidates(path) ==
    LET pathParts == Split(path) IN
    IF Len(pathParts) < 4
    THEN [panic |-> TRUE, val |-> EmptyString]
    ELSE IF ~MatchString(validDBPatternPlain, path)
    THEN [panic |-> FALSE, val |-> EmptyString]
    ELSE [panic |-> FALSE,
          val   |-> Concat(<<pathParts[1], <<Slash>>, pathParts[2], <<Slash>>,
                             pathParts[3], <<Slash>>, pathParts[4]>>)]

\* getInstanceNameFromDatabasePath reading a segment the split did not produce
\* as the empty string.
getInstanceNamePadding(path) ==
    LET pathParts == Split(path)
        part(k)   == IF k <= Len(pathParts) THEN pathParts[k] ELSE EmptyString
    IN  [panic |-> FALSE,
         val   |-> Concat(<<part(1), <<Slash>>, part(2), <<Slash>>,
                            part(3), <<Slash>>, part(4)>>)]

\* getInstanceNameFromDatabasePath: the first four segments joined by '/'.
\* Indexing a segment the split did not produce panics.
getInstanceNameFromDatabasePath(path) ==
    LET pathParts == Split(path) IN
    IF Len(pathParts) < 4
    THEN [panic |-> TRUE, val |-> EmptyString]
    ELSE [panic |-> FALSE,
          val   |-> Concat(<<pathParts[1], <<Slash>>, pathParts[2], <<Slash>>,
                             pathParts[3], <<Slash>>, pathParts[4]>>)]

\* DatabaseAdminInstancePath(project, instance) of the generated client.
DatabaseAdminInstancePath(project, instance) ==
    Concat(<< <<"p","r","o","j","e","c","t","s","/">>, project,
              <<"/","i","n","s","t","a","n","c","e","s","/">>, instance >>)

----------------------------------------------------------------------------
(* Time. A time.Time is the instant sec seconds and nsec nanoseconds after *)
(* the Unix epoch, nsec in [0, NanosPerSec).                               *)

NanosPerSec == 1000 * 1000 * 1000

\* Go's integer division, which truncates toward zero.
Quo(a, b) == IF a >= 0 THEN a \div b ELSE -((-a) \div b)

\* time.Unix keeping sec and nsec as they were given, nothing carried.
UnixWithoutCarry(sec, nsec) == [sec |-> sec, nsec |-> nsec]

\* time.Unix(sec, nsec): nsec outside [0, 1e9) is carried into the seconds.
Unix(sec, nsec) ==
    IF nsec < 0 \/ nsec >= NanosPerSec
    THEN LET n  == Quo(nsec, NanosPerSec)
             s1 == sec + n
             r  == nsec - n * NanosPerSec
         IN  IF r < 0 THEN [sec |-> s1 - 1, nsec |-> r + NanosPerSec]
             ELSE [sec |-> s1, nsec |-> r]
    ELSE [sec |-> sec, nsec |-> nsec]

\* (Time).Unix: the seconds since the epoch.
TimeUnix(t) == t.sec

\* (Time).Nanosecond: the nanosecond offset within the second.
Nanosecond(t) == t.nsec

\* The conversion int16(x): the low 16 bits of x read as a two's-complement
\* number.
Int16(x) ==
    LET lo == x % 65536
    IN  IF lo >= 32768 THEN lo - 65536 ELSE lo

\* The conversion int32(x): the low 32 bits of x read as a two's-complement
\* number, computed on 16-bit halves.
Int32(x) ==
    LET lo == x % 65536
        hi == (x \div 65536) % 65536
    IN  IF hi >= 32768 THEN (hi - 65536) * 65536 + lo ELSE hi * 65536 + lo

\* timestampProto keeping microseconds only.
timestampProtoMicros(t) ==
    [Seconds |-> TimeUnix(t), Nanos |-> Int32((Nanosecond(t) \div 1000) * 1000)]

\* timestampProto dividing the nanoseconds since the epoch by 1e9 with Go's
\* truncating division: before the epoch the remainder is negative.
timestampProtoTruncating(t) ==
    IF TimeUnix(t) < 0 /\ Nanosecond(t) > 0
    THEN [Seconds |-> TimeUnix(t) + 1, Nanos |-> Int32(Nanosecond(t) - NanosPerSec)]
    ELSE [Seconds |-> TimeUnix(t), Nanos |-> Int32(Nanosecond(t))]

\* timestampProto: the pbt.Timestamp of a time.Time.
timestampProto(t) == [Seconds |-> TimeUnix(t), Nanos |-> Int32(Nanosecond(t))]

----------------------------------------------------------------------------
(* The wrapped generated client. *)

NilOperation == [kind |-> "nil", result |-> "none"]

\* What CreateBackup of the wrapped client returns, the service answering a:
\* a long-running operation that will deliver a response, one that will deliver
\* a status error, or no operation and the error of the call.
CreateBackupResult(a) ==
    CASE a = "ok"       -> [operation |-> [kind |-> "lro", result |-> "response"],
                            err       |-> NilError]
      [] a = "lroError" -> [operation |-> [kind |-> "lro", result |-> "PermissionDenied"],
                            err       |-> NilError]
      [] a = "rpcError" -> [operation |-> NilOperation,
                            err       |-> [kind |-> "status", code |-> "Unavailable",
                                           msg  |-> EmptyString]]

\* The request log after the wrapped client was handed req with call options o.
Sent(log, req, o) == Append(log, [req |-> req, opts |-> o])

\* The request with the expiry time left out: the zero Timestamp.
CreateBackupRequestNoExpiry(parent, id, database, expireTimepb) ==
    [Parent   |-> parent,
     BackupId |-> id,
     Backup   |-> [Database |-> database, ExpireTime |-> [Seconds |-> 0, Nanos |-> 0]]]

\* The CreateBackupRequest literal the wrappers build.
CreateBackupRequest(parent, id, database, expireTimepb) ==
    [Parent   |-> parent,
     BackupId |-> id,
     Backup   |-> [Database |-> database, ExpireTime |-> expireTimepb]]

----------------------------------------------------------------------------
(* The inputs: database paths, backup ids, expiry times, service answers.  *)

Projects  == <<"p","r","o","j","e","c","t","s">>
Instances == <<"i","n","s","t","a","n","c","e","s">>
Databases == <<"d","a","t","a","b","a","s","e","s">>

\* The segments tried at position k of a generated path: the label or a name
\* that belongs there, another word, and the empty segment.
SegChoices(k) ==
    CASE k = 1 -> {Projects, <<"p","r","o","j","e","c","t">>, EmptyString}
      [] k = 2 -> {<<"p">>, Instances, EmptyString}
      [] k = 3 -> {Instances, Databases, EmptyString}
      [] k = 4 -> {<<"i","1">>, Databases, EmptyString}
      [] k = 5 -> {Databases, <<"d","a","t","a","b","a","s","e">>, EmptyString}
      [] k = 6 -> {<<"d">>, Projects, EmptyString}
      [] OTHER -> {<<"x">>, Databases, EmptyString}

RECURSIVE SegLists(_)
\* The lists of n segments.
SegLists(n) ==
    IF n = 0 THEN {<< >>}
    ELSE {Append(l, c) : l \in SegLists(n - 1), c \in SegChoices(n)}

\* The paths joined from at most MaxSegs segments.
JoinedPaths == UNION {{Join(l) : l \in SegLists(n)} : n \in 0..MaxSegs}

\* A well-formed path and the strings one insertion or one deletion away.
BasePath == <<"p","r","o","j","e","c","t","s","/","p","/","i","n","s","t","a","n","c","e","s","/","i","/","d","a","t","a","b","a","s","e","s","/","d">>

EditedPaths ==
    {SubSeq(BasePath, 1, i - 1) \o <<c>> \o SubSeq(BasePath, i, Len(BasePath)) :
        i \in 1..(Len(BasePath) + 1), c \in {Slash, "x", "\n", "\"", "$"}}
    \cup
    {SubSeq(BasePath, 1, i - 1) \o SubSeq(BasePath, i + 1, Len(BasePath)) :
        i \in 1..Len(BasePath)}

\* The paths of the unit tests.
TestValidPath == <<"p","r","o","j","e","c","t","s","/","s","p","a","n","n","e","r","-","c","l","o","u","d","-","t","e","s","t","/","i","n","s","t","a","n","c","e","s","/","f","o","o","i","n","s","t","a","n","c","e","/","d","a","t","a","b","a","s","e","s","/","f","o","o","d","b">>

TestInvalidPath == <<"p","r","o","j","e","c","t","/","i","n","s","t","a","n","c","e","s","/","d","a","t","a","b","a","s","e","s","/","f","o","o","d","b">>

TestInstancePath == <<"p","r","o","j","e","c","t","s","/","s","o","m","e","-","p","r","o","j","e","c","t","/","i","n","s","t","a","n","c","e","s","/","s","o","m","e","-","i","n","s","t","a","n","c","e">>

TestDatabasePath ==
    TestInstancePath \o <<"/","d","a","t","a","b","a","s","e","s","/">>
        \o <<"s","o","m","e","-","d","a","t","a","b","a","s","e">>

TestBackupName == <<"s","o","m","e","-","b","a","c","k","u","p">>

Paths == JoinedPaths \cup EditedPaths \cup {TestValidPath, TestInvalidPath, TestDatabasePath}

\* The few paths the requests are built from under every id, time and answer.
RequestPaths == {TestDatabasePath, BasePath, TestInvalidPath, EmptyString,
                 <<"p","r","o","j","e","c","t","s","/","p","/","i","n","s","t","a","n","c","e","s","/","i","/","d","a","t","a","b","a","s","e","s","/","d","/">>}

BackupIDs == {TestBackupName, EmptyString, <<"a", "/", "b">>}

SecValues == {-1000, 221688000, 1136239445} \cup (-MaxSec..MaxSec)

\* Nanosecond arguments inside [0, 1e9) ...
NsecInRange == {0, 1, 500, 12345, NanosPerSec - 1}

\* ... and outside it, which time.Unix carries into the seconds.
NsecOutOfRange == {-1, -12345, -NanosPerSec + 1, -NanosPerSec, -NanosPerSec - 1,
                   NanosPerSec, NanosPerSec + 12345, 2 * NanosPerSec - 1, 2 * NanosPerSec}

Answers == {"ok", "lroError", "rpcError"}

\* The contexts and the lists of call options a caller passes.
Contexts == {"ctx", "ctxWithDeadline"}

OptLists == {<< >>, <<"WithRetry">>, <<"WithRetry", "WithGRPC">>}

\* No request: the call under way is none of a pass-through method.
NoRequest == "none"

\* The requests, and the operation names, given to the pass-through methods.
Requests == {"req1", "req2"}

----------------------------------------------------------------------------
(* The state machine: the arguments are chosen, then one function or       *)
(* method is called with them.                                             *)

NoReturn == [kind |-> "none"]

\* Every path with the arguments of TestDatabaseAdminClient_CreateNewBackup.
InitPaths ==
    /\ databasePath \in Paths
    /\ backupID = TestBackupName
    /\ unixSec = 221688000 /\ unixNsec = 500
    /\ svc = "ok"
    /\ ctx = "ctx" /\ opts = << >> /\ request = NoRequest

\* Every instant, with a well-formed and a malformed path.
InitTimes ==
    /\ databasePath \in {TestDatabasePath, TestInvalidPath}
    /\ backupID = TestBackupName
    /\ unixSec \in SecValues
    /\ unixNsec \in NsecInRange \cup NsecOutOfRange
    /\ svc = "ok"
    /\ ctx = "ctx" /\ opts = << >> /\ request = NoRequest

\* Every backup id and service answer, with a few paths and instants.
InitRequests ==
    /\ databasePath \in RequestPaths
    /\ backupID \in BackupIDs
    /\ unixSec \in {-1000, 0, 221688000}
    /\ unixNsec \in {0, 500, -1}
    /\ svc \in Answers
    /\ ctx = "ctx" /\ opts \in OptLists /\ request = NoRequest

\* Every request, context and list of options for the pass-through methods.
InitPassThrough ==
    /\ databasePath = TestDatabasePath
    /\ backupID = TestBackupName
    /\ unixSec = 221688000 /\ unixNsec = 500
    /\ svc \in {"ok", "rpcError"}
    /\ ctx \in Contexts /\ opts \in OptLists /\ request \in Requests

\* The package-level variable after the package was initialised: a pointer to
\* the Regexp compiled then.
PackagePattern == [addr |-> "package", re |-> validDBPattern]

\* Nothing was called yet; the package's pattern is compiled.
InitCommon ==
    /\ expireTime = Unix(unixSec, unixNsec)
    /\ pc = "ready"
    /\ op = "none"
    /\ ret = NoReturn
    /\ reqs = << >>
    /\ waitRet = NoReturn
    /\ pkgPattern = PackagePattern
    /\ finished = {}
    /\ nCalls = 0

Init ==
    /\ \/ InitPaths
       \/ InitTimes
       \/ InitRequests
       \/ InitPassThrough
    /\ InitCommon
    /\ callers = << >>

Args == <<databasePath, backupID, unixSec, unixNsec, expireTime, svc, ctx, opts, request>>

\* What the calls of several callers share, and what they leave behind.
Shared == <<pkgPattern, callers, finished, nCalls>>

\* The call of fn returns r, the wrapped client's log being log by then.
Return(fn, r, log) ==
    /\ pc' = "done"
    /\ op' = fn
    /\ ret' = r
    /\ reqs' = log
    /\ UNCHANGED <<Args, waitRet, Shared>>

\* A direct call of validDatabaseName (names and error).
CallValidDatabaseName ==
    /\ pc = "ready"
    /\ Return("validDatabaseName", validDatabaseName(databasePath), reqs)

\* A direct call of validDatabaseName (error alone).
CallValidDatabaseNamePlain ==
    /\ pc = "ready"
    /\ Return("validDatabaseNamePlain", [err |-> validDatabaseNamePlain(databasePath)], reqs)

\* A direct call of getInstanceNameFromDatabasePath.
CallGetInstanceName ==
    /\ pc = "ready"
    /\ Return("getInstanceNameFromDatabasePath",
              getInstanceNameFromDatabasePath(databasePath), reqs)

\* A direct call of timestampProto.
CallTimestampProto ==
    /\ pc = "ready"
    /\ Return("timestampProto", timestampProto(expireTime), reqs)

\* What a wrapper returns when it gives up before the request.
Rejected(err) == [panic |-> FALSE, operation |-> NilOperation, err |-> err]

\* What a wrapper returns when it returns the wrapped client's result.
Forwarded ==
    [panic     |-> FALSE,
     operation |-> CreateBackupResult(svc).operation,
     err       |-> CreateBackupResult(svc).err]

\* The wrapper died of an index out of range.
Panicked == [panic |-> TRUE, operation |-> NilOperation, err |-> NilError]

\* CreateNewBackup looking at the validation error only after the request was
\* built and handed over.
CreateNewBackupLateValidation ==
    /\ pc = "ready"
    /\ LET v == validDatabaseName(databasePath)
           expireTimepb == timestampProto(expireTime)
           req == CreateBackupRequest(
                      DatabaseAdminInstancePath(v.project, v.instance),
                      backupID, databasePath, expireTimepb)
       IN  IF v.err # NilError
           THEN Return("CreateNewBackup", Rejected(v.err), Sent(reqs, req, << >>))
           ELSE Return("CreateNewBackup", Forwarded, Sent(reqs, req, << >>))

\* CreateNewBackup looking into the operation it got and returning the
\* failure the service ended it with as its own error.
CreateNewBackupSurfacingFailure ==
    /\ pc = "ready"
    /\ LET v == validDatabaseName(databasePath) IN
       IF v.err # NilError
       THEN Return("CreateNewBackup", Rejected(v.err), reqs)
       ELSE LET expireTimepb == timestampProto(expireTime)
                req == CreateBackupRequest(
                           DatabaseAdminInstancePath(v.project, v.instance),
                           backupID, databasePath, expireTimepb)
                got == CreateBackupResult(svc)
            IN  IF got.operation.result \in {"response", "none"}
                THEN Return("CreateNewBackup", Forwarded, Sent(reqs, req, << >>))
                ELSE Return("CreateNewBackup",
                            Rejected([kind |-> "status", code |-> got.operation.result,
                                      msg  |-> EmptyString]),
                            Sent(reqs, req, << >>))

\* CreateNewBackup validating the path of the client's first request only:
\* once a request went out, the error of the validation is not looked at.
CreateNewBackupValidatesOnce ==
    /\ pc = "ready"
    /\ LET v == validDatabaseName(databasePath) IN
       IF v.err # NilError /\ reqs = << >>
       THEN Return("CreateNewBackup", Rejected(v.err), reqs)
       ELSE LET expireTimepb == timestampProto(expireTime)
                req == CreateBackupRequest(
                           DatabaseAdminInstancePath(v.project, v.instance),
                           backupID, databasePath, expireTimepb)
            IN  Return("CreateNewBackup", Forwarded, Sent(reqs, req, << >>))

\* CreateNewBackup checking the backup id as well: an id that is empty or
\* holds a slash is rejected before anything is sent.
CreateNewBackupCheckingBackupID ==
    /\ pc = "ready"
    /\ LET v == validDatabaseName(databasePath) IN
       IF v.err # NilError
       THEN Return("CreateNewBackup", Rejected(v.err), reqs)
       ELSE IF backupID = EmptyString \/ \E i \in 1..Len(backupID) : backupID[i] = Slash
       THEN Return("CreateNewBackup",
                   Rejected([kind |-> "errorString", code |-> "none",
                             msg  |-> <<"b","a","c","k","u","p"," ","i","d"," ">> \o Quote(backupID)]),
                   reqs)
       ELSE LET expireTimepb == timestampProto(expireTime)
                req == CreateBackupRequest(
                           DatabaseAdminInstancePath(v.project, v.instance),
                           backupID, databasePath, expireTimepb)
            IN  Return("CreateNewBackup", Forwarded, Sent(reqs, req, << >>))

\* CreateNewBackup, the variant built on the extracted names.
CreateNewBackup ==
    /\ pc = "ready"
    /\ LET v == validDatabaseName(databasePath) IN
       IF v.err # NilError
       THEN Return("CreateNewBackup", Rejected(v.err), reqs)
       ELSE LET expireTimepb == timestampProto(expireTime)
                req == CreateBackupRequest(
                           DatabaseAdminInstancePath(v.project, v.instance),
                           backupID, databasePath, expireTimepb)
            IN  Return("CreateNewBackup", Forwarded, Sent(reqs, req, << >>))

\* CreateNewBackup on the split path ending with c.CreateBackup(ctx, req,
\* opts...): the caller's call options go with the request.
CreateNewBackupSplitForwardingOptions ==
    /\ pc = "ready"
    /\ LET err == validDatabaseNamePlain(databasePath) IN
       IF err # NilError
       THEN Return("CreateNewBackupSplit", Rejected(err), reqs)
       ELSE LET expireTimepb == timestampProto(expireTime)
                parent == getInstanceNameFromDatabasePath(databasePath)
            IN  IF parent.panic
                THEN Return("CreateNewBackupSplit", Panicked, reqs)
                ELSE Return("CreateNewBackupSplit", Forwarded,
                            Sent(reqs, CreateBackupRequest(parent.val, backupID,
                                           databasePath, expireTimepb), opts))

\* CreateNewBackup on the split path with a client that remembers the parent
\* it derived: the parent of the client's last request is used again, and the
\* path is split only when there was no request before.
CreateNewBackupSplitReusingParent ==
    /\ pc = "ready"
    /\ LET err == validDatabaseNamePlain(databasePath) IN
       IF err # NilError
       THEN Return("CreateNewBackupSplit", Rejected(err), reqs)
       ELSE LET expireTimepb == timestampProto(expireTime)
                parent == IF reqs # << >>
                          THEN [panic |-> FALSE, val |-> reqs[Len(reqs)].req.Parent]
                          ELSE getInstanceNameFromDatabasePath(databasePath)
            IN  IF parent.panic
                THEN Return("CreateNewBackupSplit", Panicked, reqs)
                ELSE Return("CreateNewBackupSplit", Forwarded,
                            Sent(reqs, CreateBackupRequest(parent.val, backupID,
                                           databasePath, expireTimepb), << >>))

\* CreateNewBackup, the variant built on the split path.
CreateNewBackupSplit ==
    /\ pc = "ready"
    /\ LET err == validDatabaseNamePlain(databasePath) IN
       IF err # NilError
       THEN Return("CreateNewBackupSplit", Rejected(err), reqs)
       ELSE LET expireTimepb == timestampProto(expireTime)
                parent == getInstanceNameFromDatabasePath(databasePath)
            IN  IF parent.panic
                THEN Return("CreateNewBackupSplit", Panicked, reqs)
                ELSE Return("CreateNewBackupSplit", Forwarded,
                            Sent(reqs, CreateBackupRequest(parent.val, backupID,
                                           databasePath, expireTimepb), << >>))

\* StartBackupOperation reading the fragments one place too early: the labels,
\* not the names.
StartBackupOperationOffByOne ==
    /\ pc = "ready"
    /\ IF ~MatchString(localDBPattern, databasePath)
       THEN Return("StartBackupOperation",
                   Rejected(Errorf(databasePath, String(localDBPattern))), reqs)
       ELSE LET expireTimepb == [Seconds |-> TimeUnix(expireTime),
                                 Nanos   |-> Int32(Nanosecond(expireTime))]
                databasePathFragments == Split(databasePath)
            IN  IF Len(databasePathFragments) < 4
                THEN Return("StartBackupOperation", Panicked, reqs)
                ELSE Return("StartBackupOperation", Forwarded,
                            Sent(reqs,
                                 CreateBackupRequest(
                                     Concat(<< <<"p","r","o","j","e","c","t","s","/">>,
                                               databasePathFragments[1],
                                               <<"/","i","n","s","t","a","n","c","e","s","/">>,
                                               databasePathFragments[3] >>),
                                     backupID, databasePath, expireTimepb),
                                 opts))

\* StartBackupOperation keeping the microseconds of the expiry time and
\* dropping what is finer.
StartBackupOperationMicros ==
    /\ pc = "ready"
    /\ IF ~MatchString(localDBPattern, databasePath)
       THEN Return("StartBackupOperation",
                   Rejected(Errorf(databasePath, String(localDBPattern))), reqs)
       ELSE LET expireTimepb == [Seconds |-> TimeUnix(expireTime),
                                 Nanos   |-> Int32((Nanosecond(expireTime) \div 1000) * 1000)]
                databasePathFragments == Split(databasePath)
            IN  IF Len(databasePathFragments) < 4
                THEN Return("StartBackupOperation", Panicked, reqs)
                ELSE Return("StartBackupOperation", Forwarded,
                            Sent(reqs,
                                 CreateBackupRequest(
                                     Concat(<< <<"p","r","o","j","e","c","t","s","/">>,
                                               databasePathFragments[2],
                                               <<"/","i","n","s","t","a","n","c","e","s","/">>,
                                               databasePathFragments[4] >>),
                                     backupID, databasePath, expireTimepb),
                                 opts))

\* StartBackupOperation: its own compiled pattern, the parent built from the
\* second and the fourth segment of the split path.
StartBackupOperation ==
    /\ pc = "ready"
    /\ IF ~MatchString(localDBPattern, databasePath)
       THEN Return("StartBackupOperation",
                   Rejected(Errorf(databasePath, String(localDBPattern))), reqs)
       ELSE LET expireTimepb == [Seconds |-> TimeUnix(expireTime),
                                 Nanos   |-> Int32(Nanosecond(expireTime))]
                databasePathFragments == Split(databasePath)
            IN  IF Len(databasePathFragments) < 4
                THEN Return("StartBackupOperation", Panicked, reqs)
                ELSE Return("StartBackupOperation", Forwarded,
                            Sent(reqs,
                                 CreateBackupRequest(
                                     Concat(<< <<"p","r","o","j","e","c","t","s","/">>,
                                               databasePathFragments[2],
                                               <<"/","i","n","s","t","a","n","c","e","s","/">>,
                                               databasePathFragments[4] >>),
                                     backupID, databasePath, expireTimepb),
                                 opts))

\* validDatabaseName of package spanner, which the veneer's CreateBackup
\* calls: it returns the error alone.
spannerValidDatabaseName(db) == validDatabaseNamePlain(db)

\* timestampProto of package spanner.
spannerTimestampProto(t) == timestampProto(t)

\* CreateBackup of the veneer spanner.DatabaseAdminClient: the parent from the
\* split path, the request handed over without the call options.
CreateBackup ==
    /\ pc = "ready"
    /\ LET err == spannerValidDatabaseName(databasePath) IN
       IF err # NilError
       THEN Return("CreateBackup", Rejected(err), reqs)
       ELSE LET expireTimepb == spannerTimestampProto(expireTime)
                parent == getInstanceNameFromDatabasePath(databasePath)
            IN  IF parent.panic
                THEN Return("CreateBackup", Panicked, reqs)
                ELSE Return("CreateBackup", Forwarded,
                            Sent(reqs, CreateBackupRequest(parent.val, backupID,
                                           databasePath, expireTimepb), << >>))

\* The methods of the veneer that take a context, a request and call options
\* ...
RequestMethods ==
    {"ListDatabases", "CreateDatabase", "GetDatabase",
     "UpdateDatabaseDdl", "DropDatabase", "GetDatabaseDdl",
     "SetIamPolicy", "GetIamPolicy", "TestIamPermissions", "GetBackup",
     "UpdateBackup", "DeleteBackup", "ListBackups", "RestoreDatabase",
     "ListDatabaseOperations", "ListBackupOperations"}

\* ... and those that take the name of a long-running operation.
LookupMethods ==
    {"CreateBackupOperation", "CreateDatabaseOperation",
     "RestoreDatabaseOperation", "UpdateDatabaseDdlOperation"}

\* A method that takes no context.
NoContext == "none"

\* A wrapper method that hands on the context and the request and keeps the
\* call options to itself.
DelegateWithoutOptions(m, c, req, o) ==
    [method |-> m, ctx |-> c, req |-> req, opts |-> << >>]

\* The call the veneer's method m makes on the wrapped generated client when
\* called with context c, request (or operation name) req and call options o.
Delegate(m, c, req, o) ==
    CASE m = "ListDatabases" ->
            [method |-> "ListDatabases", ctx |-> c, req |-> req, opts |-> o]
      [] m = "CreateDatabase" ->
            [method |-> "CreateDatabase", ctx |-> c, req |-> req, opts |-> o]
      [] m = "GetDatabase" ->
            [method |-> "GetDatabase", ctx |-> c, req |-> req, opts |-> o]
      [] m = "UpdateDatabaseDdl" ->
            [method |-> "UpdateDatabaseDdl", ctx |-> c, req |-> req, opts |-> o]
      [] m = "DropDatabase" ->
            [method |-> "DropDatabase", ctx |-> c, req |-> req, opts |-> o]
      [] m = "GetDatabaseDdl" ->
            [method |-> "GetDatabaseDdl", ctx |-> c, req |-> req, opts |-> o]
      [] m = "SetIamPolicy" ->
            [method |-> "SetIamPolicy", ctx |-> c, req |-> req, opts |-> o]
      [] m = "GetIamPolicy" ->
            [method |-> "GetIamPolicy", ctx |-> c, req |-> req, opts |-> o]
      [] m = "TestIamPermissions" ->
            [method |-> "TestIamPermissions", ctx |-> c, req |-> req, opts |-> o]
      [] m = "GetBackup" ->
            [method |-> "GetBackup", ctx |-> c, req |-> req, opts |-> o]
      [] m = "UpdateBackup" ->
            [method |-> "UpdateBackup", ctx |-> c, req |-> req, opts |-> o]
      [] m = "DeleteBackup" ->
            [method |-> "DeleteBackup", ctx |-> c, req |-> req, opts |-> o]
      [] m = "ListBackups" ->
            [method |-> "ListBackups", ctx |-> c, req |-> req, opts |-> o]
      [] m = "RestoreDatabase" ->
            [method |-> "RestoreDatabase", ctx |-> c, req |-> req, opts |-> o]
      [] m = "ListDatabaseOperations" ->
            [method |-> "ListDatabaseOperations", ctx |-> c, req |-> req, opts |-> o]
      [] m = "ListBackupOperations" ->
            [method |-> "ListBackupOperations", ctx |-> c, req |-> req, opts |-> o]
      [] m = "CreateBackupOperation" ->
            [method |-> "CreateBackupOperation", ctx |-> NoContext, req |-> req, opts |-> << >>]
      [] m = "CreateDatabaseOperation" ->
            [method |-> "CreateDatabaseOperation", ctx |-> NoContext, req |-> req, opts |-> << >>]
      [] m = "RestoreDatabaseOperation" ->
            [method |-> "RestoreDatabaseOperation", ctx |-> NoContext, req |-> req, opts |-> << >>]
      [] m = "UpdateDatabaseDdlOperation" ->
            [method |-> "UpdateDatabaseDdlOperation", ctx |-> NoContext, req |-> req, opts |-> << >>]

\* What the wrapped client's method returns for a call, the service answering
\* a: a value that belongs to the call, or the error of the call.
AdminClientResult(call, a) ==
    IF a = "ok"
    THEN [value |-> <<call.method, call.req>>, err |-> NilError]
    ELSE [value |-> << >>,
          err   |-> [kind |-> "status", code |-> "Unavailable", msg |-> EmptyString]]

\* A call of one of the veneer's pass-through methods.
PassThrough ==
    /\ pc = "ready"
    /\ request # NoRequest
    /\ \E m \in RequestMethods \cup LookupMethods :
          LET call == Delegate(m, ctx, request, opts)
          IN  Return(m, AdminClientResult(call, svc), Append(reqs, call))

\* (*CreateBackupOperation).Wait: the response of the operation, or the
\* status error the service ended it with.
Wait(operation) ==
    IF operation.result = "response"
    THEN [resp |-> "backup", err |-> NilError]
    ELSE [resp |-> "nil",
          err  |-> [kind |-> "status", code |-> operation.result, msg |-> EmptyString]]

\* The caller waits on the operation a wrapper returned.
WaitOnOperation ==
    /\ pc = "done"
    /\ op \in {"CreateNewBackup", "CreateNewBackupSplit", "StartBackupOperation", "CreateBackup"}
    /\ ~ret.panic
    /\ ret.operation # NilOperation
    /\ waitRet' = Wait(ret.operation)
    /\ pc' = "waited"
    /\ UNCHANGED <<Args, op, ret, reqs, Shared>>

Next ==
    \/ CallValidDatabaseName
    \/ CallValidDatabaseNamePlain
    \/ CallGetInstanceName
    \/ CallTimestampProto
    \/ CreateNewBackup
    \/ CreateNewBackupSplit
    \/ StartBackupOperation
    \/ CreateBackup
    \/ PassThrough
    \/ WaitOnOperation

Spec == Init /\ [][Next]_vars

----------------------------------------------------------------------------
(* Several callers. Each makes its calls one after the other, the calls of *)
(* different callers interleave: a step is one access to what the callers  *)
(* share, the package's pattern and the wrapped client, together with the  *)
(* local work up to the next access or to the return.                      *)

\* The callers.
Callers == {"caller1", "caller2"}

\* The calls the callers make, all together.
MaxCalls == 3

\* What the callers call, and with which paths.
CallerFns == {"validDatabaseName", "getInstanceNameFromDatabasePath", "timestampProto",
              "CreateNewBackup", "StartBackupOperation"}

CallerPaths == {TestDatabasePath, TestInvalidPath}

\* No Regexp: the nil pointer.
NoPattern == [addr |-> "nil", re |-> MustCompile(EmptyString)]

\* A caller between two calls, n calls made.
Idle(n) == [pc |-> "idle", fn |-> "none", db |-> EmptyString, re |-> NoPattern,
            v |-> NoReturn, sent |-> 0, calls |-> n]

\* The callers have called nothing yet; all pass the backup id and the expiry
\* time of TestDatabaseAdminClient_CreateNewBackup. The wrapped client answers
\* every request with an operation, or every request with an error.
InitCallers ==
    /\ databasePath = TestDatabasePath
    /\ backupID = TestBackupName
    /\ unixSec = 221688000 /\ unixNsec = 500
    /\ svc \in {"ok", "rpcError"}
    /\ ctx = "ctx" /\ opts = <<"WithRetry">> /\ request = NoRequest
    /\ InitCommon
    /\ callers = [c \in Callers |-> Idle(0)]

\* What a step of a caller leaves alone whatever it does.
Outside == <<Args, pc, op, ret, waitRet, nCalls>>

\* The first step of the function fn.
Entry(fn) ==
    CASE fn \in {"validDatabaseName", "CreateNewBackup"} -> "match"
      [] fn = "StartBackupOperation"                     -> "compile"
      [] fn = "getInstanceNameFromDatabasePath"          -> "derive"
      [] fn = "timestampProto"                           -> "convert"

\* The call of caller c returns r, having sent n requests.
ReturnTo(c, r, n) ==
    /\ finished' = finished \cup {[fn |-> callers[c].fn, db |-> callers[c].db,
                                   ret |-> r, sent |-> n]}
    /\ callers' = [callers EXCEPT ![c] = Idle(@.calls)]

RECURSIVE CallsOf(_)
\* The calls the callers of the set S have made, those under way included.
CallsOf(S) ==
    IF S = {} THEN 0
    ELSE LET c == CHOOSE x \in S : TRUE
         IN  callers[c].calls + CallsOf(S \ {c})

\* Caller c calls one of the functions with one of the paths.
Invoke(c) ==
    /\ callers[c].pc = "idle"
    /\ CallsOf(Callers) < MaxCalls
    /\ \E fn \in CallerFns, db \in CallerPaths :
          callers' = [callers EXCEPT ![c] =
                         [@ EXCEPT !.pc = Entry(fn), !.fn = fn, !.db = db,
                                   !.calls = @ + 1]]
    /\ UNCHANGED <<Outside, reqs, pkgPattern, finished>>

\* The first step of validDatabaseName compiling the pattern when it is first
\* used, not when the package is initialised: every call assigns the package
\* variable.
ValidDatabaseNameMatchCompiling(c) ==
    /\ callers[c].pc = "match"
    /\ LET me == callers[c]
           re == pkgPattern.re
       IN  IF ~MatchString(re, me.db)
           THEN LET err == Errorf(me.db, String(re)) IN
                IF me.fn = "validDatabaseName"
                THEN ReturnTo(c, [project  |-> EmptyString,
                                  instance |-> EmptyString,
                                  database |-> EmptyString,
                                  err      |-> err], 0)
                ELSE ReturnTo(c, Rejected(err), 0)
           ELSE /\ callers' = [callers EXCEPT ![c].pc = "extract"]
                /\ UNCHANGED finished
    /\ pkgPattern' = [addr |-> c, re |-> validDBPattern]
    /\ UNCHANGED <<Outside, reqs>>

\* validDatabaseName, alone or called by CreateNewBackup: the match against
\* the package's pattern; without a match, the error and the return.
ValidDatabaseNameMatch(c) ==
    /\ callers[c].pc = "match"
    /\ LET me == callers[c]
           re == pkgPattern.re
       IN  IF ~MatchString(re, me.db)
           THEN LET err == Errorf(me.db, String(re)) IN
                IF me.fn = "validDatabaseName"
                THEN ReturnTo(c, [project  |-> EmptyString,
                                  instance |-> EmptyString,
                                  database |-> EmptyString,
                                  err      |-> err], 0)
                ELSE ReturnTo(c, Rejected(err), 0)
           ELSE /\ callers' = [callers EXCEPT ![c].pc = "extract"]
                /\ UNCHANGED finished
    /\ UNCHANGED <<Outside, reqs, pkgPattern>>

\* validDatabaseName after the match: the three names, read off the package's
\* pattern.
ValidDatabaseNameExtract(c) ==
    /\ callers[c].pc = "extract"
    /\ LET me == callers[c]
           re == pkgPattern.re
           v  == [project  |-> ReplaceAllString(re, me.db, <<"$","{","p","r","o","j","e","c","t","}">>),
                  instance |-> ReplaceAllString(re, me.db, <<"$","{","i","n","s","t","a","n","c","e","}">>),
                  database |-> ReplaceAllString(re, me.db, <<"$","{","d","a","t","a","b","a","s","e","}">>),
                  err      |-> NilError]
       IN  IF me.fn = "validDatabaseName"
           THEN ReturnTo(c, v, 0)
           ELSE /\ callers' = [callers EXCEPT ![c] = [@ EXCEPT !.v = v, !.pc = "send"]]
                /\ UNCHANGED finished
    /\ UNCHANGED <<Outside, reqs, pkgPattern>>

\* The end of CreateNewBackup handing the request over once more when the
\* call came back with an error.
CreateNewBackupSendRetrying(c) ==
    /\ callers[c].pc = "send"
    /\ callers[c].fn = "CreateNewBackup"
    /\ LET me == callers[c]
           expireTimepb == timestampProto(expireTime)
           req == CreateBackupRequest(
                      DatabaseAdminInstancePath(me.v.project, me.v.instance),
                      backupID, me.db, expireTimepb)
       IN  IF CreateBackupResult(svc).err # NilError
           THEN /\ reqs' = Sent(Sent(reqs, req, << >>), req, << >>)
                /\ ReturnTo(c, Forwarded, 2)
           ELSE /\ reqs' = Sent(reqs, req, << >>)
                /\ ReturnTo(c, Forwarded, 1)
    /\ UNCHANGED <<Outside, pkgPattern>>

\* CreateNewBackup after the validation: the request, handed to the wrapped
\* client, whose result is returned.
CreateNewBackupSend(c) ==
    /\ callers[c].pc = "send"
    /\ callers[c].fn = "CreateNewBackup"
    /\ LET me == callers[c]
           expireTimepb == timestampProto(expireTime)
           req == CreateBackupRequest(
                      DatabaseAdminInstancePath(me.v.project, me.v.instance),
                      backupID, me.db, expireTimepb)
       IN  /\ reqs' = Sent(reqs, req, << >>)
           /\ ReturnTo(c, Forwarded, 1)
    /\ UNCHANGED <<Outside, pkgPattern>>

\* The first step of StartBackupOperation with = for := : the Regexp it
\* compiles is assigned to the package's variable too.
StartBackupOperationCompileAssigning(c) ==
    /\ callers[c].pc = "compile"
    /\ callers' = [callers EXCEPT ![c] =
                      [@ EXCEPT !.re = [addr |-> c, re |-> localDBPattern],
                                !.pc = "localMatch"]]
    /\ pkgPattern' = [addr |-> c, re |-> localDBPattern]
    /\ UNCHANGED <<Outside, reqs, finished>>

\* StartBackupOperation: the Regexp it compiles for itself, held in a local
\* variable.
StartBackupOperationCompile(c) ==
    /\ callers[c].pc = "compile"
    /\ callers' = [callers EXCEPT ![c] =
                      [@ EXCEPT !.re = [addr |-> c, re |-> localDBPattern],
                                !.pc = "localMatch"]]
    /\ UNCHANGED <<Outside, reqs, pkgPattern, finished>>

\* StartBackupOperation: the match against its own Regexp; without a match,
\* the error and the return.
StartBackupOperationMatch(c) ==
    /\ callers[c].pc = "localMatch"
    /\ LET me == callers[c] IN
       IF ~MatchString(me.re.re, me.db)
       THEN ReturnTo(c, Rejected(Errorf(me.db, String(me.re.re))), 0)
       ELSE /\ callers' = [callers EXCEPT ![c].pc = "send"]
            /\ UNCHANGED finished
    /\ UNCHANGED <<Outside, reqs, pkgPattern>>

\* StartBackupOperation after the match: the request, built from the split
\* path, handed to the wrapped client with the call options.
StartBackupOperationSend(c) ==
    /\ callers[c].pc = "send"
    /\ callers[c].fn = "StartBackupOperation"
    /\ LET me == callers[c]
           expireTimepb == [Seconds |-> TimeUnix(expireTime),
                            Nanos   |-> Int32(Nanosecond(expireTime))]
           databasePathFragments == Split(me.db)
       IN  IF Len(databasePathFragments) < 4
           THEN /\ ReturnTo(c, Panicked, 0)
                /\ UNCHANGED reqs
           ELSE /\ reqs' = Sent(reqs,
                                CreateBackupRequest(
                                    Concat(<< <<"p","r","o","j","e","c","t","s","/">>,
                                              databasePathFragments[2],
                                              <<"/","i","n","s","t","a","n","c","e","s","/">>,
                                              databasePathFragments[4] >>),
                                    backupID, me.db, expireTimepb),
                                opts)
                /\ ReturnTo(c, Forwarded, 1)
    /\ UNCHANGED <<Outside, pkgPattern>>

\* getInstanceNameFromDatabasePath, which reads nothing but its argument.
GetInstanceNameStep(c) ==
    /\ callers[c].pc = "derive"
    /\ ReturnTo(c, getInstanceNameFromDatabasePath(callers[c].db), 0)
    /\ UNCHANGED <<Outside, reqs, pkgPattern>>

\* timestampProto, which reads nothing but its argument.
TimestampProtoStep(c) ==
    /\ callers[c].pc = "convert"
    /\ ReturnTo(c, timestampProto(expireTime), 0)
    /\ UNCHANGED <<Outside, reqs, pkgPattern>>

NextCallers ==
    \E c \in Callers :
        \/ Invoke(c)
        \/ ValidDatabaseNameMatch(c)
        \/ ValidDatabaseNameExtract(c)
        \/ CreateNewBackupSend(c)
        \/ StartBackupOperationCompile(c)
        \/ StartBackupOperationMatch(c)
        \/ StartBackupOperationSend(c)
        \/ GetInstanceNameStep(c)
        \/ TimestampProtoStep(c)

SpecCallers == InitCallers /\ [][NextCallers]_vars

----------------------------------------------------------------------------
(* One client that makes its calls one after the other, each with arguments *)
(* of its own; the wrapped client keeps every request it was handed.        *)

\* The calls the client makes in a row.
MaxSeq == 2

\* The arguments of the calls: two well-formed paths in different instances
\* and two malformed ones, a backup id with a slash, an instant before the
\* epoch, a call option.
SequencePaths == {TestDatabasePath, BasePath, TestInvalidPath, BasePath \o <<Slash>>}

SequenceIDs == {TestBackupName, <<"a", "/", "b">>}

SequenceTimes == {<<221688000, 500>>, <<-1000, -1>>}

SequenceOpts == {<< >>, <<"WithRetry">>}

\* The arguments of a call are db, id, the instant t and the options o.
ArgsAre(db, id, t, o) ==
    /\ databasePath' = db
    /\ backupID' = id
    /\ unixSec' = t[1] /\ unixNsec' = t[2]
    /\ expireTime' = Unix(t[1], t[2])
    /\ opts' = o

\* The first call is about to be made.
InitSequence ==
    /\ databasePath \in SequencePaths
    /\ backupID \in SequenceIDs
    /\ \E t \in SequenceTimes : unixSec = t[1] /\ unixNsec = t[2]
    /\ svc \in {"ok", "rpcError"}
    /\ ctx = "ctx" /\ opts \in SequenceOpts /\ request = NoRequest
    /\ InitCommon
    /\ callers = << >>

\* The call returned; the client makes its next one.
CallAgain ==
    /\ pc = "done"
    /\ nCalls + 1 < MaxSeq
    /\ \E db \in SequencePaths, id \in SequenceIDs, t \in SequenceTimes, o \in SequenceOpts :
          ArgsAre(db, id, t, o)
    /\ pc' = "ready"
    /\ op' = "none"
    /\ ret' = NoReturn
    /\ nCalls' = nCalls + 1
    /\ UNCHANGED <<svc, ctx, request, reqs, waitRet, pkgPattern, callers, finished>>

NextSequence ==
    \/ CreateNewBackup
    \/ CreateNewBackupSplit
    \/ StartBackupOperation
    \/ CallAgain

SpecSequence == InitSequence /\ [][NextSequence]_vars

----------------------------------------------------------------------------
(* What the claims speak of, stated on the path itself, not on the regular *)
(* expression.                                                             *)

\* A non-empty name without a slash.
IsToken(tok) == tok # EmptyString /\ \A i \in 1..Len(tok) : tok[i] # Slash

\* s is projects/P/instances/I/databases/D for tokens P, I and D.
WellFormed(s) ==
    LET segs == Split(s) IN
    /\ Len(segs) = 6
    /\ segs[1] = Projects  /\ IsToken(segs[2])
    /\ segs[3] = Instances /\ IsToken(segs[4])
    /\ segs[5] = Databases /\ IsToken(segs[6])

ProjectOf(s)  == Split(s)[2]
InstanceOf(s) == Split(s)[4]
DatabaseOf(s) == Split(s)[6]

\* projects/P/instances/I
InstancePath(P, I) ==
    Projects \o <<Slash>> \o P \o <<Slash>> \o Instances \o <<Slash>> \o I

\* A required segment is missing.
MissesSegment(s) == Len(Split(s)) < 6

\* There are more segments than the six of the pattern.
HasExtraSegment(s) == Len(Split(s)) > 6

\* A label that is present is not the word the pattern has there.
HasWrongLabel(s) ==
    LET segs == Split(s) IN
    \/ segs[1] # Projects
    \/ Len(segs) >= 3 /\ segs[3] # Instances
    \/ Len(segs) >= 5 /\ segs[5] # Databases

\* status.Code of gRPC: the code of a status error, Unknown for any other
\* error, OK for nil.
StatusCode(err) ==
    CASE err.kind = "nil"    -> "OK"
      [] err.kind = "status" -> err.code
      [] OTHER               -> "Unknown"

Validators == {"validDatabaseName", "validDatabaseNamePlain"}

Wrappers == {"CreateNewBackup", "CreateNewBackupSplit", "StartBackupOperation"}

\* The error the validation of the wrapper called fn returns for the path s.
ValidationError(fn, s) ==
    CASE fn = "CreateNewBackupSplit" -> validDatabaseNamePlain(s)
      [] fn = "StartBackupOperation" -> Errorf(s, String(localDBPattern))
      [] OTHER                       -> validDatabaseName(s).err

----------------------------------------------------------------------------
(* C1 *)

\* C1: for every path projects/P/instances/I/databases/D with non-empty,
\* slash-free P, I and D, validDatabaseName returns a nil error and exactly the
\* three names P, I, D, in that order.
C1_ValidNameExtracted ==
    (pc = "done" /\ op = "validDatabaseName" /\ WellFormed(databasePath)) =>
        /\ ret.err = NilError
        /\ ret.project  = ProjectOf(databasePath)
        /\ ret.instance = InstanceOf(databasePath)
        /\ ret.database = DatabaseOf(databasePath)

\* The path of Test_validDatabaseName was validated and its names came back.
C1_Witness ==
    /\ pc = "done" /\ op = "validDatabaseName"
    /\ databasePath = TestValidPath
    /\ WellFormed(databasePath)
    /\ ret.err = NilError
    /\ ret.project = <<"s","p","a","n","n","e","r","-","c","l","o","u","d","-","t","e","s","t">>
    /\ ret.instance = <<"f","o","o","i","n","s","t","a","n","c","e">>
    /\ ret.database = <<"f","o","o","d","b">>

----------------------------------------------------------------------------
(* C2 *)

----------------------------------------------------------------------------
(* C3 *)

\* C3: validation accepts a path if and only if it matches the pattern exactly.
\* A leading slash, a trailing slash, an empty project, instance or database,
\* a character before projects/ or a slash after the database name each make
\* it reject, and every accepted path has exactly six segments.
C3_AcceptedIffExactMatch ==
    (pc = "done" /\ op \in Validators) =>
        LET s        == databasePath
            segs     == Split(s)
            accepted == ret.err = NilError
        IN  /\ accepted <=> WellFormed(s)
            /\ (s # EmptyString /\ s[1] = Slash) => ~accepted
            /\ (s # EmptyString /\ s[Len(s)] = Slash) => ~accepted
            /\ (\E k \in {2, 4, 6} : Len(segs) >= k /\ segs[k] = EmptyString) => ~accepted
            /\ ~HasPrefixAt(s, 1, Projects \o <<Slash>>) => ~accepted
            /\ Len(segs) > 6 => ~accepted
            /\ accepted => Len(segs) = 6

\* A well-formed path with a slash appended was rejected.
C3_Witness ==
    /\ pc = "done" /\ op = "validDatabaseName"
    /\ databasePath = BasePath \o <<Slash>>
    /\ WellFormed(BasePath)
    /\ ret.err # NilError

----------------------------------------------------------------------------
(* C4 *)

\* C4: called with a path that fails validation, CreateNewBackup (either
\* variant) and StartBackupOperation return a nil operation and the validation
\* error, and hand no request to the wrapped client: nothing is built from the
\* path, and no call is made, before the path is validated.
C4_InvalidPathNoRequest ==
    (pc = "done" /\ op \in Wrappers /\ ~WellFormed(databasePath)) =>
        /\ ~ret.panic
        /\ ret.operation = NilOperation
        /\ ret.err # NilError
        /\ ret.err = ValidationError(op, databasePath)
        /\ reqs = << >>

\* StartBackupOperation was called with the empty path, for which the split
\* has no second segment, and returned the validation error.
C4_Witness ==
    /\ pc = "done" /\ op = "StartBackupOperation"
    /\ databasePath = EmptyString
    /\ ret.operation = NilOperation
    /\ ret.err.kind = "errorString"
    /\ reqs = << >>

----------------------------------------------------------------------------
(* C5 *)

\* C5: called with a valid path projects/P/instances/I/databases/D,
\* CreateNewBackup (either variant) hands the wrapped client one request, whose
\* Parent is projects/P/instances/I and whose Backup.Database is the path as
\* given.
C5_ParentAndDatabase ==
    (/\ pc = "done" /\ op \in {"CreateNewBackup", "CreateNewBackupSplit"}
     /\ WellFormed(databasePath)) =>
        /\ Len(reqs) = 1
        /\ reqs[1].req.Parent =
              InstancePath(ProjectOf(databasePath), InstanceOf(databasePath))
        /\ reqs[1].req.Backup.Database = databasePath

\* The request of TestDatabaseAdminClient_CreateNewBackup was sent.
C5_Witness ==
    /\ pc = "done" /\ op = "CreateNewBackup"
    /\ databasePath = TestDatabasePath
    /\ Len(reqs) = 1
    /\ reqs[1].req.Parent = TestInstancePath
    /\ reqs[1].req.Backup.Database = TestDatabasePath

----------------------------------------------------------------------------
(* C6 *)

\* The seconds S and nanoseconds N denote the instant time.Unix(sec, nsec) was
\* asked for: S * 1e9 + N = sec * 1e9 + nsec, compared without leaving the
\* range of the integers at hand.
SameInstant(S, N, sec, nsec) ==
    /\ S - sec \in -2..2
    /\ (S - sec) * NanosPerSec = nsec - N

\* The seconds and nanoseconds of the instant time.Unix(sec, nsec), the
\* nanoseconds in [0, 1e9).
Decomposed(sec, nsec) ==
    [Seconds |-> sec + (nsec \div NanosPerSec), Nanos |-> nsec % NanosPerSec]

\* C6: called with a valid path, CreateNewBackup (either variant) hands the
\* wrapped client a request whose BackupId is the backupID as given and whose
\* Backup.ExpireTime is the seconds and nanoseconds of the expiry time;
\* time.Unix(221688000, 500) gives Seconds 221688000 and Nanos 500.
C6_BackupIdAndExpireTime ==
    (/\ pc = "done" /\ op \in {"CreateNewBackup", "CreateNewBackupSplit"}
     /\ WellFormed(databasePath)) =>
        /\ Len(reqs) = 1
        /\ reqs[1].req.BackupId = backupID
        /\ reqs[1].req.Backup.ExpireTime = Decomposed(unixSec, unixNsec)
        /\ (unixSec = 221688000 /\ unixNsec = 500) =>
              reqs[1].req.Backup.ExpireTime = [Seconds |-> 221688000, Nanos |-> 500]

\* The request of TestDatabaseAdminClient_CreateNewBackup carried the backup
\* name and the expiry time of the test.
C6_Witness ==
    /\ pc = "done" /\ op = "CreateNewBackup"
    /\ databasePath = TestDatabasePath
    /\ backupID = TestBackupName
    /\ unixSec = 221688000 /\ unixNsec = 500
    /\ Len(reqs) = 1
    /\ reqs[1].req.BackupId = TestBackupName
    /\ reqs[1].req.Backup.ExpireTime = [Seconds |-> 221688000, Nanos |-> 500]

----------------------------------------------------------------------------
(* C7 *)

\* C7: for every valid path projects/P/instances/I/databases/D the derived
\* parent instance path is projects/P/instances/I, the path cut before
\* /databases/D; so for getInstanceNameFromDatabasePath and for the parent
\* StartBackupOperation builds.
C7_ParentIsTruncation ==
    LET s      == databasePath
        parent == InstancePath(ProjectOf(s), InstanceOf(s))
        cut    == Len(s) - Len(DatabaseOf(s)) - Len(Databases) - 2
    IN  /\ (pc = "done" /\ op = "getInstanceNameFromDatabasePath" /\ WellFormed(s)) =>
              /\ ~ret.panic
              /\ ret.val = parent
              /\ ret.val = SubSeq(s, 1, cut)
        /\ (pc = "done" /\ op = "StartBackupOperation" /\ WellFormed(s)) =>
              /\ Len(reqs) = 1
              /\ reqs[1].req.Parent = parent
              /\ reqs[1].req.Parent = SubSeq(s, 1, cut)

\* The parent of the test's valid path was derived.
C7_Witness ==
    /\ pc = "done" /\ op = "getInstanceNameFromDatabasePath"
    /\ databasePath = TestDatabasePath
    /\ ~ret.panic
    /\ ret.val = TestInstancePath

----------------------------------------------------------------------------
(* C8 *)

\* C8: timestampProto round-trips: the Seconds and Nanos it returns, put
\* together again as seconds since the epoch plus nanoseconds, are exactly the
\* instant it was given.
C8_RoundTrip ==
    (pc = "done" /\ op = "timestampProto") =>
        /\ SameInstant(ret.Seconds, ret.Nanos, unixSec, unixNsec)
        /\ Unix(ret.Seconds, ret.Nanos) = expireTime

\* An instant given with more than a second of nanoseconds was converted and
\* the carry went into the seconds.
C8_Witness ==
    /\ pc = "done" /\ op = "timestampProto"
    /\ unixSec = 1136239445 /\ unixNsec = NanosPerSec + 12345
    /\ ret = [Seconds |-> 1136239446, Nanos |-> 12345]

----------------------------------------------------------------------------
(* C9 *)

\* C9: for every instant time.Unix(s, n) with 0 <= n < 1e9, s negative
\* included, timestampProto returns exactly Seconds s and Nanos n; so it does
\* for (0, 0), (1136239445, 12345) and (-1000, 12345).
C9_InRangeExact ==
    (pc = "done" /\ op = "timestampProto") =>
        /\ (0 <= unixNsec /\ unixNsec < NanosPerSec) =>
              ret = [Seconds |-> unixSec, Nanos |-> unixNsec]
        /\ (unixSec = 0 /\ unixNsec = 0) => ret = [Seconds |-> 0, Nanos |-> 0]
        /\ (unixSec = 1136239445 /\ unixNsec = 12345) =>
              ret = [Seconds |-> 1136239445, Nanos |-> 12345]
        /\ (unixSec = -1000 /\ unixNsec = 12345) =>
              ret = [Seconds |-> -1000, Nanos |-> 12345]

\* The negative case of Test_timestampProto was converted.
C9_Witness ==
    /\ pc = "done" /\ op = "timestampProto"
    /\ unixSec = -1000 /\ unixNsec = 12345
    /\ ret = [Seconds |-> -1000, Nanos |-> 12345]

----------------------------------------------------------------------------
(* C10 *)

MaxInt32 == 2147483647

\* C10: for every instant the Nanos timestampProto returns lies in [0, 1e9),
\* so the conversion to int32 loses nothing of the nanosecond offset; Seconds
\* may be negative.
C10_NanosInRange ==
    (pc = "done" /\ op = "timestampProto") =>
        /\ 0 <= ret.Nanos /\ ret.Nanos < NanosPerSec
        /\ NanosPerSec - 1 <= MaxInt32
        /\ ret.Nanos = Nanosecond(expireTime)

\* An instant built from a negative nanosecond argument, before the epoch, was
\* converted: its Seconds are negative and its Nanos are not.
C10_Witness ==
    /\ pc = "done" /\ op = "timestampProto"
    /\ unixSec = 0 /\ unixNsec = -1
    /\ ret.Seconds < 0
    /\ ret.Nanos = NanosPerSec - 1

----------------------------------------------------------------------------
(* C11 *)

\* Whether sub occurs somewhere in s.
Contains(s, sub) == \E i \in 1..(Len(s) - Len(sub) + 1) : HasPrefixAt(s, i, sub)

\* The characters the %q verb does not write as they are.
Escaped == {"\"", "\\", "\n"}

\* The text of the pattern the function called fn validates against.
PatternText(fn) ==
    CASE fn \in {"validDatabaseNamePlain", "CreateNewBackupSplit"} ->
            <<"^","p","r","o","j","e","c","t","s","/","[","^","/","]","+","/","i","n","s","t","a","n","c","e","s","/","[","^","/","]","+","/","d","a","t","a","b","a","s","e","s","/","[","^","/","]","+","$">>
      [] OTHER ->
            <<"^","p","r","o","j","e","c","t","s","/","(","?","P","<","p","r","o","j","e","c","t",">","[","^","/","]","+",")","/","i","n","s","t","a","n","c","e","s","/","(","?","P","<","i","n","s","t","a","n","c","e",">","[","^","/","]","+",")","/","d","a","t","a","b","a","s","e","s","/","(","?","P","<","d","a","t","a","b","a","s","e",">","[","^","/","]","+",")","$">>

----------------------------------------------------------------------------
(* C12 *)

\* Whenever a call of validDatabaseName has returned, it returned what
\* validDatabaseName gives for its argument, and so did every other call with
\* the same argument.
SameResultEveryTime ==
    \A r \in finished :
        r.fn = "validDatabaseName" =>
            /\ r.ret = validDatabaseName(r.db)
            /\ \A q \in finished : (q.fn = r.fn /\ q.db = r.db) => q.ret = r.ret

\* A step of a call of validDatabaseName changes the caller's own position and
\* results and, when it returns, the record of what returned: not the
\* argument, not the package's pattern, not the requests the wrapped client
\* got, not another caller.
ValidationChangesNothing ==
    \A c \in Callers :
        (callers[c].fn = "validDatabaseName" /\ callers'[c] # callers[c]) =>
            /\ pkgPattern' = pkgPattern
            /\ reqs' = reqs
            /\ callers'[c].pc # "idle" => callers'[c].db = callers[c].db
            /\ \A d \in Callers \ {c} : callers'[d] = callers[d]
            /\ finished' \in {finished,
                              finished \cup {[fn |-> "validDatabaseName",
                                              db |-> callers[c].db,
                                              ret |-> validDatabaseName(callers[c].db),
                                              sent |-> 0]}}

\* C12: validDatabaseName is a pure function. No step of it changes any state,
\* its argument and the package's compiled pattern included, and however many
\* times it is called with the same string it returns the same result: the
\* retry of a validation that failed fails again with the same error.
C12_ValidationIsPure ==
    /\ []SameResultEveryTime
    /\ [][ValidationChangesNothing]_vars

\* The first caller validated the malformed path of the tests twice, no other
\* call was made, and one result is on record for the two calls.
C12_Witness ==
    /\ callers["caller1"].calls = 2 /\ callers["caller1"].pc = "idle"
    /\ callers["caller2"].calls = 0
    /\ Cardinality(finished) = 1
    /\ \E r \in finished :
          /\ r.fn = "validDatabaseName" /\ r.db = TestInvalidPath
          /\ r.ret.err.kind = "errorString"

----------------------------------------------------------------------------
(* C13 *)

\* What the call fn(db) returns when nothing else runs.
Alone(fn, db) ==
    CASE fn = "validDatabaseName"               -> validDatabaseName(db)
      [] fn = "getInstanceNameFromDatabasePath" -> getInstanceNameFromDatabasePath(db)
      [] fn = "timestampProto"                  -> timestampProto(expireTime)
      [] OTHER -> IF WellFormed(db) THEN Forwarded
                  ELSE Rejected(ValidationError(fn, db))

\* C13: validation, the derivation of the parent path and the construction of
\* the timestamp run concurrently without coordination. The package's
\* compiled pattern, the one object the calls share, is never written after
\* the package was initialised, and under every interleaving of the callers'
\* steps each call returns what it returns when it runs alone.
C13_ConcurrentCallsAgree ==
    /\ pkgPattern = PackagePattern
    /\ \A r \in finished : r.ret = Alone(r.fn, r.db)
    /\ \A c \in Callers :
          callers[c].pc = "send" => callers[c].v = validDatabaseName(callers[c].db)
                                       \/ callers[c].fn = "StartBackupOperation"

\* While the first caller was inside validDatabaseName, after the match, and
\* the second inside StartBackupOperation, holding its own Regexp, a third
\* call had returned the parent of the test's path.
C13_Witness ==
    /\ callers["caller1"].fn = "validDatabaseName" /\ callers["caller1"].pc = "extract"
    /\ callers["caller2"].fn = "StartBackupOperation" /\ callers["caller2"].pc = "localMatch"
    /\ callers["caller2"].re.addr = "caller2"
    /\ pkgPattern = PackagePattern
    /\ \E r \in finished :
          /\ r.fn = "getInstanceNameFromDatabasePath" /\ r.db = TestDatabasePath
          /\ r.ret.val = TestInstancePath

----------------------------------------------------------------------------
(* C14 *)

\* C14: every call of CreateNewBackup and of StartBackupOperation hands the
\* wrapped client at most one request: none when the validation fails, one
\* when it succeeds, and one still when the wrapped client's call comes back
\* with an error; nothing is tried again.
C14_AtMostOneCreateBackup ==
    /\ \A r \in finished :
          r.fn \in {"CreateNewBackup", "StartBackupOperation"} =>
              /\ r.sent = IF WellFormed(r.db) THEN 1 ELSE 0
              /\ ~WellFormed(r.db) => r.ret.err.kind = "errorString"
              /\ (WellFormed(r.db) /\ svc = "rpcError") =>
                    r.ret.err.kind = "status" /\ r.sent = 1
    /\ \A r \in finished :
          r.fn \notin {"CreateNewBackup", "StartBackupOperation"} => r.sent = 0
    /\ Len(reqs) <= CallsOf(Callers)
    /\ (\A r \in finished : r.sent = 0) => reqs = << >>

\* The wrapped client answered the request of CreateNewBackup with an error:
\* the call returned that error, and the one request is all the client got,
\* with three calls made.
C14_Witness ==
    /\ svc = "rpcError"
    /\ CallsOf(Callers) = 3
    /\ \A c \in Callers : callers[c].pc = "idle"
    /\ Len(reqs) = 1
    /\ \E r \in finished :
          /\ r.fn = "CreateNewBackup" /\ r.db = TestDatabasePath
          /\ r.ret.err.kind = "status"
          /\ r.sent = 1
    /\ \E r \in finished :
          r.fn = "StartBackupOperation" /\ r.db = TestInvalidPath /\ r.sent = 0

----------------------------------------------------------------------------
(* C15 *)

\* C15: every method of the veneer other than CreateBackup is a pass-through.
\* Called with a context, a request and call options it calls the method of
\* the same name of the wrapped client once, with that context, that request
\* and those options, and returns what that call returns; an *Operation
\* lookup, which takes a name only, hands on the name.
C15_PassThrough ==
    (pc = "done" /\ op \in RequestMethods \cup LookupMethods) =>
        /\ Len(reqs) = 1
        /\ reqs[1].method = op
        /\ reqs[1].req = request
        /\ op \in RequestMethods => reqs[1].ctx = ctx /\ reqs[1].opts = opts
        /\ ret = AdminClientResult(reqs[1], svc)
        /\ svc = "ok" => ret.err = NilError /\ ret.value = <<op, request>>
        /\ svc # "ok" => ret.err # NilError

\* UpdateBackup was called with the second context, the second request and
\* two call options, and handed all three on.
C15_Witness ==
    /\ pc = "done" /\ op = "UpdateBackup"
    /\ ctx = "ctxWithDeadline" /\ request = "req2"
    /\ opts = <<"WithRetry", "WithGRPC">>
    /\ reqs = <<[method |-> "UpdateBackup", ctx |-> "ctxWithDeadline",
                 req |-> "req2", opts |-> <<"WithRetry", "WithGRPC">>]>>
    /\ ret.err = NilError

----------------------------------------------------------------------------
(* C16 *)

\* C16: called with a valid path, CreateNewBackup (either variant) returns
\* what CreateBackup of the wrapped client returned, as it is. When the
\* service ends the long-running operation with a failure, PermissionDenied
\* for one, CreateNewBackup returns the operation and a nil error; the failure
\* reaches the caller, with the same status code, only from Wait on that
\* operation.
C16_FailureSurfacesOnWait ==
    (/\ pc \in {"done", "waited"}
     /\ op \in {"CreateNewBackup", "CreateNewBackupSplit"}
     /\ WellFormed(databasePath)) =>
        /\ ~ret.panic
        /\ ret.operation = CreateBackupResult(svc).operation
        /\ ret.err = CreateBackupResult(svc).err
        /\ pc = "done" => waitRet = NoReturn
        /\ svc = "lroError" =>
              /\ ret.err = NilError
              /\ ret.operation # NilOperation
              /\ pc = "waited" =>
                    /\ waitRet.err.kind = "status"
                    /\ StatusCode(waitRet.err) = "PermissionDenied"

\* The run of TestDatabaseAdminCreateNewBackupError: CreateNewBackup returned
\* an operation and no error, and Wait returned PermissionDenied.
C16_Witness ==
    /\ pc = "waited" /\ op = "CreateNewBackup"
    /\ databasePath = TestDatabasePath /\ backupID = TestBackupName
    /\ svc = "lroError"
    /\ ret.err = NilError
    /\ ret.operation # NilOperation
    /\ StatusCode(waitRet.err) = "PermissionDenied"

----------------------------------------------------------------------------
(* C17 *)

\* The name the service gives the backup a request creates:
\* <Parent>/backups/<BackupId>.
BackupName(req) ==
    req.Parent \o <<"/","b","a","c","k","u","p","s","/">> \o req.BackupId

\* C17: called with a valid path projects/P/instances/I/databases/D and a
\* backupID B, StartBackupOperation issues one request, which names the backup
\* projects/P/instances/I/backups/B: its Parent is projects/P/instances/I, the
\* instance the database is in, and its BackupId is B.
C17_BackupNamedInSameInstance ==
    (pc = "done" /\ op = "StartBackupOperation" /\ WellFormed(databasePath)) =>
        LET P == ProjectOf(databasePath)
            I == InstanceOf(databasePath)
        IN  /\ Len(reqs) = 1
            /\ reqs[1].req.Parent = InstancePath(P, I)
            /\ reqs[1].req.BackupId = backupID
            /\ BackupName(reqs[1].req) =
                  InstancePath(P, I) \o <<"/","b","a","c","k","u","p","s","/">> \o backupID
            /\ HasPrefixAt(databasePath, 1, reqs[1].req.Parent \o <<Slash>>)

\* StartBackupOperation was called with the database and the backup name of
\* the test and asked for projects/some-project/instances/some-instance/
\* backups/some-backup.
C17_Witness ==
    /\ pc = "done" /\ op = "StartBackupOperation"
    /\ databasePath = TestDatabasePath /\ backupID = TestBackupName
    /\ Len(reqs) = 1
    /\ BackupName(reqs[1].req) =
          TestInstancePath \o <<"/","b","a","c","k","u","p","s","/">> \o TestBackupName

----------------------------------------------------------------------------
(* C18 *)

\* The number of slashes in s.
Slashes(s) == Cardinality({i \in 1..Len(s) : s[i] = Slash})

\* The end of the fourth segment of s, which has at least four: the place
\* before the fourth slash, or the end of s when there are three.
FourthEnd(s) ==
    IF Slashes(s) = 3 THEN Len(s)
    ELSE (CHOOSE j \in 1..Len(s) :
             s[j] = Slash /\ Cardinality({i \in 1..j : s[i] = Slash}) = 4) - 1

\* C18: getInstanceNameFromDatabasePath does not validate: for every string
\* with four or more segments, a valid path or not, it returns the first four
\* segments joined by '/', the string up to its fourth slash, and neither
\* panics nor reports an error.
C18_FirstFourSegments ==
    (/\ pc = "done" /\ op = "getInstanceNameFromDatabasePath"
     /\ Slashes(databasePath) >= 3) =>
        /\ ~ret.panic
        /\ DOMAIN ret = {"panic", "val"}
        /\ ret.val = SubSeq(databasePath, 1, FourthEnd(databasePath))
        /\ ret.val = Join(SubSeq(Split(databasePath), 1, 4))

\* The function was called with seven segments that make no valid path, some
\* of them empty, and returned the first four.
C18_Witness ==
    /\ pc = "done" /\ op = "getInstanceNameFromDatabasePath"
    /\ databasePath = <<"p","r","o","j","e","c","t","/","/","d","a","t","a","b","a","s","e","s","/","/","/","/","x">>
    /\ ~WellFormed(databasePath)
    /\ ~ret.panic
    /\ ret.val = <<"p","r","o","j","e","c","t","/","/","d","a","t","a","b","a","s","e","s","/">>

----------------------------------------------------------------------------
(* C19 *)

\* C19: called with a string of fewer than four segments, the empty string
\* included, getInstanceNameFromDatabasePath reads an index out of range and
\* panics; it returns neither a value nor an error.
C19_TooFewSegmentsPanics ==
    (/\ pc = "done" /\ op = "getInstanceNameFromDatabasePath"
     /\ Slashes(databasePath) < 3) =>
        /\ ret.panic
        /\ ret.val = EmptyString
        /\ reqs = << >>

\* The function was called with the empty string and panicked.
C19_Witness ==
    /\ pc = "done" /\ op = "getInstanceNameFromDatabasePath"
    /\ databasePath = EmptyString
    /\ ret.panic

----------------------------------------------------------------------------
(* C20 *)

\* The public methods that build a CreateBackupRequest from a database path.
PublicEntries ==
    {"CreateNewBackup", "CreateNewBackupSplit", "CreateBackup", "StartBackupOperation"}

\* C20: no public entry point reaches the index out of range. For every
\* string, CreateNewBackup (either variant), the veneer's CreateBackup and
\* StartBackupOperation return an operation and an error and do not panic:
\* either the validation error, with nothing sent, or the result of the one
\* request they send, and then the path has exactly six segments, so that
\* every segment they read exists.
C20_NoEntryPanics ==
    (pc = "done" /\ op \in PublicEntries) =>
        /\ DOMAIN ret = {"panic", "operation", "err"}
        /\ ~ret.panic
        /\ \/ /\ ret.err.kind = "errorString"
              /\ ret.operation = NilOperation
              /\ reqs = << >>
           \/ /\ Len(Split(databasePath)) = 6
              /\ Len(reqs) = 1
              /\ ret.err.kind # "errorString"

\* The veneer's CreateBackup was called with a path of three segments and
\* returned the validation error; it did not panic.
C20_Witness ==
    /\ pc = "done" /\ op = "CreateBackup"
    /\ databasePath = <<"p","r","o","j","e","c","t","s","/","p","/","i","n","s","t","a","n","c","e","s">>
    /\ Len(Split(databasePath)) = 3
    /\ ~ret.panic
    /\ ret.err.kind = "errorString"
    /\ reqs = << >>

----------------------------------------------------------------------------
(* C21 *)

\* C21: when validDatabaseName fails, the three names it returns beside the
\* error, project, instance and database, are all the empty string: nothing
\* that was extracted from a part of the path comes back with an error. The
\* names are non-empty exactly when the error is nil.
C21_NoTokensWithError ==
    (pc = "done" /\ op = "validDatabaseName") =>
        /\ DOMAIN ret = {"project", "instance", "database", "err"}
        /\ ret.err # NilError =>
              /\ ret.project  = EmptyString
              /\ ret.instance = EmptyString
              /\ ret.database = EmptyString
        /\ ret.err = NilError =>
              /\ ret.project  # EmptyString
              /\ ret.instance # EmptyString
              /\ ret.database # EmptyString

\* A path whose first six segments are well-formed and which goes on after
\* them was rejected, and none of the names its beginning holds came back.
C21_Witness ==
    /\ pc = "done" /\ op = "validDatabaseName"
    /\ databasePath = <<"p","r","o","j","e","c","t","s","/","p","/","i","n","s","t","a","n","c","e","s","/","i","1","/","d","a","t","a","b","a","s","e","s","/","d","/","x">>
    /\ WellFormed(SubSeq(databasePath, 1, Len(databasePath) - 2))
    /\ ret.err.kind = "errorString"
    /\ ret.project = EmptyString /\ ret.instance = EmptyString /\ ret.database = EmptyString

----------------------------------------------------------------------------
(* C22 *)

\* /databases/
DatabasesInfix == <<Slash>> \o Databases \o <<Slash>>

\* C22: after any sequence of calls of CreateNewBackup (either variant) and
\* StartBackupOperation, whatever their arguments, every CreateBackupRequest
\* the wrapped client was handed has a Backup.Database that matches the valid
\* database pattern and that is the request's Parent followed by /databases/
\* and a non-empty name without a slash. The wrapped client was handed one
\* request at most for each call.
C22_EveryRequestWellFormed ==
    /\ Len(reqs) <= nCalls + 1
    /\ \A i \in 1..Len(reqs) :
          LET database == reqs[i].req.Backup.Database
              parent   == reqs[i].req.Parent
              lead     == parent \o DatabasesInfix
          IN  /\ MatchString(validDBPattern, database)
              /\ WellFormed(database)
              /\ HasPrefixAt(database, 1, lead)
              /\ IsToken(SubSeq(database, Len(lead) + 1, Len(database)))

\* The client made two calls: the first was handed a database of one instance
\* and sent its request, the second was rejected for its malformed path, and
\* the request of the first is all the wrapped client has.
C22_Witness ==
    /\ pc = "done" /\ nCalls = 1
    /\ op = "CreateNewBackup"
    /\ databasePath = TestInvalidPath
    /\ ret.err.kind = "errorString"
    /\ Len(reqs) = 1
    /\ reqs[1].req.Parent = TestInstancePath
    /\ reqs[1].req.Backup.Database = TestDatabasePath

----------------------------------------------------------------------------
(* C23 *)

\* projects/P/instances/I/databases/D
Reassembled(P, I, D) ==
    Projects \o <<Slash>> \o P \o <<Slash>> \o Instances \o <<Slash>> \o I
        \o DatabasesInfix \o D

\* The three strings s holds where a project of lp and an instance of li
\* characters would stand, the database taking the rest. Every triple that
\* reassembles to s is one of these.
Candidate(s, lp, li) ==
    LET pAt == Len(Projects) + 2
        iAt == pAt + lp + Len(Instances) + 2
        dAt == iAt + li + Len(Databases) + 2
    IN  <<SubSeq(s, pAt, pAt + lp - 1), SubSeq(s, iAt, iAt + li - 1),
          SubSeq(s, dAt, Len(s))>>

\* C23: the names validDatabaseName extracts reassemble to its input. For
\* every accepted string s with result (P, I, D), projects/P/instances/I/
\* databases/D is s, and (P, I, D) is the only triple of non-empty slash-free
\* names of which this is true.
C23_TokensReassemble ==
    (pc = "done" /\ op = "validDatabaseName" /\ ret.err = NilError) =>
        LET s == databasePath IN
        /\ IsToken(ret.project) /\ IsToken(ret.instance) /\ IsToken(ret.database)
        /\ Reassembled(ret.project, ret.instance, ret.database) = s
        /\ \A lp \in 1..Len(s), li \in 1..Len(s) :
              LET t == Candidate(s, lp, li) IN
              (/\ Len(Reassembled(EmptyString, EmptyString, EmptyString)) + lp + li < Len(s)
               /\ IsToken(t[1]) /\ IsToken(t[2]) /\ IsToken(t[3])
               /\ Reassembled(t[1], t[2], t[3]) = s) =>
                    t = <<ret.project, ret.instance, ret.database>>

\* A path whose names are the words of the labels was accepted, and its names
\* came back as they stand in it.
C23_Witness ==
    /\ pc = "done" /\ op = "validDatabaseName"
    /\ databasePath = Reassembled(Instances, Databases, Projects)
    /\ ret.err = NilError
    /\ ret.project = Instances /\ ret.instance = Databases /\ ret.database = Projects

----------------------------------------------------------------------------
(* C24 *)

\* The three copies of the validation.
ValidationCopies == {"validDatabaseNamePlain", "validDatabaseName", "StartBackupOperation"}

\* Whether the copy of the validation in fn accepts s.
Accepts(fn, s) ==
    CASE fn = "validDatabaseNamePlain" -> validDatabaseNamePlain(s) = NilError
      [] fn = "validDatabaseName"      -> validDatabaseName(s).err = NilError
      [] fn = "StartBackupOperation"   -> MatchString(localDBPattern, s)

\* C24: the copies of the validation accept the same strings. Whatever the
\* input, validDatabaseName that returns the error alone (pattern without
\* groups), validDatabaseName that returns the names (pattern with named
\* groups) and the check written out in StartBackupOperation all accept it or
\* all reject it.
C24_CopiesAgree ==
    (pc = "done" /\ op \in ValidationCopies) =>
        LET accepted == ret.err.kind # "errorString" IN
        /\ \A fn \in ValidationCopies : Accepts(fn, databasePath) <=> accepted
        /\ accepted <=> WellFormed(databasePath)

\* StartBackupOperation accepted a path that ends in a newline, which the two
\* other copies accept as well.
C24_Witness ==
    /\ pc = "done" /\ op = "StartBackupOperation"
    /\ databasePath = BasePath \o <<"\n">>
    /\ ret.err = NilError
    /\ Len(reqs) = 1
    /\ validDatabaseNamePlain(databasePath) = NilError
    /\ validDatabaseName(databasePath).err = NilError

----------------------------------------------------------------------------
(* C25 *)

\* C25: for the same backup id, database path and expiry time, every variant
\* of the construction builds the same CreateBackupRequest. On every valid
\* path projects/P/instances/I/databases/D, CreateNewBackup on the split path
\* (four segments joined again), CreateNewBackup on the extracted names,
\* StartBackupOperation (the labels written out, the second and the fourth
\* segment) and the veneer's CreateBackup hand over one request, which is the
\* same function of the arguments for all of them: Parent is
\* projects/P/instances/I, BackupId the id, Backup.Database the path and
\* Backup.ExpireTime the seconds and nanoseconds of the instant.
C25_VariantsBuildSameRequest ==
    (pc = "done" /\ op \in PublicEntries /\ WellFormed(databasePath)) =>
        /\ Len(reqs) = 1
        /\ reqs[1].req =
              [Parent   |-> InstancePath(ProjectOf(databasePath), InstanceOf(databasePath)),
               BackupId |-> backupID,
               Backup   |-> [Database   |-> databasePath,
                             ExpireTime |-> Decomposed(unixSec, unixNsec)]]

\* StartBackupOperation was called with the arguments of
\* TestDatabaseAdminClient_CreateNewBackup and handed over the request that
\* test expects of CreateNewBackup.
C25_Witness ==
    /\ pc = "done" /\ op = "StartBackupOperation"
    /\ databasePath = TestDatabasePath /\ backupID = TestBackupName
    /\ unixSec = 221688000 /\ unixNsec = 500
    /\ Len(reqs) = 1
    /\ reqs[1].req =
          [Parent   |-> TestInstancePath,
           BackupId |-> TestBackupName,
           Backup   |-> [Database   |-> TestDatabasePath,
                         ExpireTime |-> [Seconds |-> 221688000, Nanos |-> 500]]]

----------------------------------------------------------------------------
(* C26 *)

\* C26: StartBackupOperation alone forwards the call options. It hands the
\* caller's opts, unchanged and in their order, to CreateBackup of the wrapped
\* client; CreateNewBackup (either variant) and the veneer's CreateBackup call
\* it with no call option, whatever opts the caller gave them.
C26_OnlyStartBackupOperationForwardsOptions ==
    (pc = "done" /\ op \in PublicEntries /\ WellFormed(databasePath)) =>
        /\ Len(reqs) = 1
        /\ op = "StartBackupOperation" => reqs[1].opts = opts
        /\ op # "StartBackupOperation" => reqs[1].opts = << >>

\* CreateNewBackup was called with two call options and handed its request
\* over with none.
C26_Witness ==
    /\ pc = "done" /\ op = "CreateNewBackup"
    /\ WellFormed(databasePath)
    /\ opts = <<"WithRetry", "WithGRPC">>
    /\ Len(reqs) = 1
    /\ reqs[1].opts = << >>

----------------------------------------------------------------------------
(* C27 *)

\* C27: whether a call is rejected locally depends on the database path
\* alone. CreateNewBackup (either variant) and StartBackupOperation return an
\* error of their own making if and only if the path fails the pattern,
\* whatever the backup id, the empty one and one with a slash included, and
\* whatever the expiry time, an instant in the past or before the epoch
\* included: neither is validated locally, and both go into the request as
\* they were given.
C27_RejectionDependsOnPathOnly ==
    (pc = "done" /\ op \in Wrappers) =>
        /\ ~ret.panic
        /\ ret.err.kind = "errorString" <=> ~MatchString(validDBPattern, databasePath)
        /\ ret.err.kind = "errorString" <=> ~WellFormed(databasePath)
        /\ ret.err.kind = "errorString" => ret.err = ValidationError(op, databasePath)
        /\ ret.err.kind # "errorString" =>
              /\ Len(reqs) = 1
              /\ reqs[1].req.BackupId = backupID
              /\ reqs[1].req.Backup.ExpireTime.Seconds = TimeUnix(expireTime)
              /\ ret.err = CreateBackupResult(svc).err

\* StartBackupOperation was called with a valid path, a backup id with a
\* slash in it and an expiry time before the epoch, and sent its request.
C27_Witness ==
    /\ pc = "done" /\ op = "StartBackupOperation"
    /\ databasePath = BasePath
    /\ backupID = <<"a", "/", "b">>
    /\ unixSec = -1000 /\ unixNsec = -1
    /\ ret.err = NilError
    /\ Len(reqs) = 1
    /\ reqs[1].req.BackupId = <<"a", "/", "b">>
    /\ reqs[1].req.Backup.ExpireTime.Seconds = -1001

----------------------------------------------------------------------------
(* C28 *)

\* C28: an instant built from a nanosecond offset outside [0, 1e9), a
\* negative one included, is decomposed in normalised form. For
\* time.Unix(s, n), timestampProto returns Seconds s + floor(n / 1e9) and
\* Nanos n mod 1e9: Nanos is never negative, and Seconds and Nanos together
\* still denote the instant s seconds and n nanoseconds after the epoch.
C28_OutOfRangeNormalised ==
    (/\ pc = "done" /\ op = "timestampProto"
     /\ (unixNsec < 0 \/ unixNsec >= NanosPerSec)) =>
        /\ ret.Seconds = unixSec + (unixNsec \div NanosPerSec)
        /\ ret.Nanos = unixNsec % NanosPerSec
        /\ ret.Nanos >= 0 /\ ret.Nanos < NanosPerSec
        /\ ret.Seconds # unixSec
        /\ SameInstant(ret.Seconds, ret.Nanos, unixSec, unixNsec)

\* The instant one second and one nanosecond before the epoch, given as zero
\* seconds and a negative offset, came back as two seconds before the epoch
\* and all but one nanosecond of a second.
C28_Witness ==
    /\ pc = "done" /\ op = "timestampProto"
    /\ unixSec = 0 /\ unixNsec = -NanosPerSec - 1
    /\ ret = [Seconds |-> -2, Nanos |-> NanosPerSec - 1]

----------------------------------------------------------------------------
(* C29 *)

\* The request a call with backup id id, valid path db and the instant
\* time.Unix(sec, nsec) issues.
RequestFor(id, db, sec, nsec) ==
    [Parent   |-> InstancePath(ProjectOf(db), InstanceOf(db)),
     BackupId |-> id,
     Backup   |-> [Database |-> db, ExpireTime |-> Decomposed(sec, nsec)]]

\* A call of the client returns in this step: what it returns and what it
\* hands to the wrapped client are determined by its own arguments (and, for
\* the result of a request that went out, by the wrapped client's answer).
\* The requests of the earlier calls stay as they are, and so do the
\* arguments and the package's pattern.
CallDependsOnOwnArguments ==
    (pc = "ready" /\ pc' = "done") =>
        /\ UNCHANGED <<Args, pkgPattern, nCalls>>
        /\ op' \in Wrappers
        /\ IF WellFormed(databasePath)
           THEN /\ reqs' = Append(reqs,
                                  [req  |-> RequestFor(backupID, databasePath, unixSec, unixNsec),
                                   opts |-> IF op' = "StartBackupOperation" THEN opts ELSE << >>])
                /\ ret' = Forwarded
           ELSE /\ reqs' = reqs
                /\ ret' = Rejected(ValidationError(op', databasePath))

\* C29: the operations that build a backup request keep no state between
\* calls. In every sequence of calls of CreateNewBackup (either variant) and
\* StartBackupOperation, the request a call issues, or the validation error it
\* returns, is a function of the arguments of that call alone: calls made
\* before it, accepted or rejected, change nothing of it.
C29_NoStateBetweenCalls == [][CallDependsOnOwnArguments]_vars

\* The second call of the client, for a database of another instance and
\* with another backup id than the first, issued a request for that instance
\* and that id; the request of the first call is still before it in the log.
C29_Witness ==
    /\ pc = "done" /\ nCalls = 1
    /\ op = "CreateNewBackupSplit"
    /\ databasePath = BasePath /\ backupID = <<"a", "/", "b">>
    /\ Len(reqs) = 2
    /\ reqs[1].req.Parent = TestInstancePath
    /\ reqs[1].req.BackupId = TestBackupName
    /\ reqs[2].req = RequestFor(backupID, BasePath, unixSec, unixNsec)
    /\ reqs[2].req.Parent # reqs[1].req.Parent

====
